---- MODULE Spec2Model ----
(***************************************************************************)
(* A model of noxrunner's local sandbox: the session registry and its      *)
(* directories (LocalSandboxBackend), the path sanitizer (PathSanitizer),  *)
(* the command validation and the tar extraction (TarHandler).             *)
(*                                                                         *)
(* Strings.  A Python str is modelled as a sequence of tokens.  A token is *)
(* a one-character string; the fixed names the program itself builds       *)
(* ("tmp", "workspace", "noxrunner_sandbox_") are tokens of several        *)
(* letters.  Cat joins the tokens of a path segment into one name.         *)
(*                                                                         *)
(* Paths.  A pathlib path is a record [abs, parts]: whether it is absolute *)
(* and its sequence of names.  The file system maps absolute paths without *)
(* "." and ".." to nodes.                                                  *)
(***************************************************************************)
EXTENDS Integers, Sequences, FiniteSets, TLC

VARIABLES
    pyver,      \* the Python version the program runs under (311, 312 or 314)
    fs,         \* the host file system: absolute path -> node
    sandboxes,  \* LocalSandboxBackend._sandboxes: session id -> record
    now,        \* the wall clock, in seconds
    cwd,        \* the working directory of the host process
    th,         \* per thread: the backend call it is inside, and where
    ret,        \* per thread: how its last backend call ended
    ncalls,     \* how many backend calls were started
    inp,        \* the arguments of the last call of a pure function
    out,        \* and what it returned
    sys_stderr  \* sys.stderr of the host process: how many warnings were
                \* printed to it, and the message of the last

vars ==
    <<pyver, fs, sandboxes, now, cwd, th, ret, ncalls, inp, out,
      sys_stderr>>

----------------------------------------------------------------------------
(* Strings *)

\* LET r == v IN Then(r), for a value v that is computed once
With(v, Then(_)) == Then(v)

RECURSIVE Cat(_)
\* "".join(tokens)
Cat(s) == IF s = <<>> THEN "" ELSE Head(s) \o Cat(Tail(s))

RECURSIVE SplitOn(_, _)
\* str.split(sep) for every sep of seps: the segments between separators,
\* empty ones included; there is always at least one segment.
SplitOn(s, seps) ==
    IF s = <<>> THEN << <<>> >>
    ELSE With(SplitOn(Tail(s), seps), LAMBDA rest :
             IF Head(s) \in seps
             THEN << <<>> >> \o rest
             ELSE << <<Head(s)>> \o Head(rest) >> \o Tail(rest))

\* The separators of str.replace("\\", "/").split("/")
BothSlashes == {"/", "\\"}

\* os.path.isabs on POSIX
IsAbs(s) == s # <<>> /\ Head(s) = "/"

\* The names of the segments of s
Names(segs) == [i \in 1..Len(segs) |-> Cat(segs[i])]

\* pathlib's parse of a POSIX path string: split on "/", drop empty and "."
\* segments; ".." is kept, and a backslash is an ordinary character.
PathOf(s) ==
    [abs   |-> IsAbs(s),
     parts |-> SelectSeq(Names(SplitOn(s, {"/"})), LAMBDA n : n # "" /\ n # ".")]

\* pathlib's a / b for an absolute a and a parsed b
Join(a, b) == IF b.abs THEN b.parts ELSE a \o b.parts

\* Path(s).name: the final component ("" when there is none)
PathName(s) ==
    With(PathOf(s).parts, LAMBDA p : IF p = <<>> THEN "" ELSE p[Len(p)])

\* PurePath.relative_to succeeds: root is p or an ancestor of p
IsWithin(p, root) ==
    Len(root) <= Len(p) /\ SubSeq(p, 1, Len(root)) = root

Parent(p) == IF p = <<>> THEN <<>> ELSE SubSeq(p, 1, Len(p) - 1)

----------------------------------------------------------------------------
(* The file system *)

\* A node: a directory, a regular file with its content, or a symbolic link
\* with its target string.  ino is 0 for a file with one name; the names of
\* one hard-linked file share a positive ino and their content.
Dir == [kind |-> "dir", data |-> "", target |-> <<>>, ino |-> 0]
File(d) == [kind |-> "file", data |-> d, target |-> <<>>, ino |-> 0]
Link(t) == [kind |-> "link", data |-> "", target |-> t, ino |-> 0]

\* How many symbolic links one resolution follows before it gives up.
MaxLinkHops == 6

Exists(f, p) == p \in DOMAIN f
IsLink(f, p) == Exists(f, p) /\ f[p].kind = "link"

RECURSIVE Walk(_, _, _, _)
\* Following the names of rest from cur: a symbolic link is replaced by its
\* target, ".." goes to the parent of the path resolved so far, a name that
\* does not exist is kept.  ok is FALSE when the links do not end (ELOOP);
\* path is then the link it stopped at and rest the names not yet followed.
Walk(f, cur, rest, hops) ==
    IF rest = <<>> THEN [ok |-> TRUE, path |-> cur, rest |-> <<>>]
    ELSE LET n == Head(rest) IN
         IF n = ".." THEN Walk(f, Parent(cur), Tail(rest), hops)
         ELSE IF IsLink(f, Append(cur, n))
         THEN IF hops = 0
              THEN [ok |-> FALSE, path |-> Append(cur, n), rest |-> Tail(rest)]
              ELSE With(PathOf(f[Append(cur, n)].target), LAMBDA t :
                       Walk(f, IF t.abs THEN <<>> ELSE cur,
                            t.parts \o Tail(rest), hops - 1))
         ELSE Walk(f, Append(cur, n), Tail(rest), hops)

\* The kernel's resolution of the absolute path p
Kernel(f, p) == Walk(f, <<>>, p, MaxLinkHops)

\* os.path.abspath of an absolute path: ".." taken by the letter
Abspath(p) == Walk(<<>>, <<>>, p, 0).path

\* Path.resolve() of an absolute path.  In a symbolic-link loop
\* os.path.realpath stops, leaves the remaining names as they are and
\* normalizes the result by the letter; up to Python 3.12 resolve() then
\* calls stat() on it and raises RuntimeError (ok is FALSE) when that meets
\* the loop again.
Resolve(f, p) ==
    With(Walk(f, <<>>, p, MaxLinkHops), LAMBDA w :
        IF w.ok THEN [ok |-> TRUE, path |-> w.path]
        ELSE With(Abspath(w.path \o w.rest), LAMBDA stopped :
                 [ok |-> pyver >= 313 \/ Kernel(f, stopped).ok,
                  path |-> stopped]))

\* Where the kernel finds the last name of p: the parent directory resolved,
\* the last name itself not followed (lstat, unlink, symlink, mkdir).
Phys(f, p) ==
    IF p = <<>> \/ p[Len(p)] = ".." THEN Kernel(f, p)
    ELSE With(Kernel(f, Parent(p)), LAMBDA up :
             [ok |-> up.ok, path |-> Append(up.path, p[Len(p)])])

IsDirAt(f, q) == Exists(f, q) /\ f[q].kind = "dir"

\* os.path.lexists(p), os.path.exists(p), Path.is_dir()
LExists(f, p) == With(Phys(f, p), LAMBDA q : q.ok /\ Exists(f, q.path))
PathExists(f, p) == With(Kernel(f, p), LAMBDA q : q.ok /\ Exists(f, q.path))
PathIsDir(f, p) == With(Kernel(f, p), LAMBDA q : q.ok /\ IsDirAt(f, q.path))
PathIsFile(f, p) ==
    With(Kernel(f, p), LAMBDA q :
        q.ok /\ Exists(f, q.path) /\ f[q.path].kind = "file")

\* The result of a file system call: ok is FALSE when it raised OSError.
Done(f) == [ok |-> TRUE, fs |-> f]
Failed(f) == [ok |-> FALSE, fs |-> f]

\* f with node n put at q, a name of an existing directory
Put(f, q, n) == [x \in DOMAIN f \cup {q} |-> IF x = q THEN n ELSE f[x]]

\* f without the paths of gone
Without(f, gone) == [x \in DOMAIN f \ gone |-> f[x]]

RECURSIVE MkdirParents(_, _)
\* Path(p).mkdir(parents=True, exist_ok=True): the missing directories of p
\* are made; it raises when p, or a parent of p, exists and is no directory.
MkdirParents(f, p) ==
    With(Phys(f, p), LAMBDA q :
        IF ~q.ok THEN Failed(f)
        ELSE IF Exists(f, q.path)
        THEN IF PathIsDir(f, p) THEN Done(f) ELSE Failed(f)
        ELSE With(MkdirParents(f, Parent(p)), LAMBDA up :
                 IF ~up.ok THEN up
                 ELSE IF ~PathIsDir(up.fs, Parent(p)) THEN Failed(up.fs)
                 ELSE Done(Put(up.fs, Phys(up.fs, p).path, Dir))))

\* open(p, "wb").write(d): symbolic links are followed, the last one too;
\* an existing file is rewritten in place, under each of its names.
WriteFile(f, p, d) ==
    With(Kernel(f, p), LAMBDA r :
        IF ~r.ok THEN Failed(f)
        ELSE IF Exists(f, r.path)
        THEN IF f[r.path].kind # "file" THEN Failed(f)
             ELSE Done([x \in DOMAIN f |->
                           IF x = r.path
                               \/ (f[x].kind = "file" /\ f[x].ino # 0
                                     /\ f[x].ino = f[r.path].ino)
                           THEN [f[x] EXCEPT !.data = d] ELSE f[x]])
        ELSE IF ~IsDirAt(f, Parent(r.path)) THEN Failed(f)
        ELSE Done(Put(f, r.path, File(d))))

\* os.unlink(p)
Unlink(f, p) ==
    With(Phys(f, p), LAMBDA q :
        IF ~q.ok \/ ~Exists(f, q.path) \/ f[q.path].kind = "dir"
        THEN Failed(f)
        ELSE Done(Without(f, {q.path})))

\* os.symlink(target, p)
Symlink(f, target, p) ==
    With(Phys(f, p), LAMBDA q :
        IF ~q.ok \/ Exists(f, q.path) \/ ~IsDirAt(f, Parent(q.path))
        THEN Failed(f)
        ELSE Done(Put(f, q.path, Link(target))))

\* os.rename(src, p) of a src that is there to a p that is not: src, and
\* all that is below it, is then found at p
Rename(f, src, p) ==
    With(Phys(f, src), LAMBDA s : With(Phys(f, p), LAMBDA q :
        IF ~s.ok \/ ~q.ok \/ ~Exists(f, s.path) \/ Exists(f, q.path)
              \/ ~IsDirAt(f, Parent(q.path)) \/ IsWithin(q.path, s.path)
        THEN Failed(f)
        ELSE Done([x \in {y \in DOMAIN f : ~IsWithin(y, s.path)}
                        \cup {q.path \o SubSeq(y, Len(s.path) + 1, Len(y)) :
                                 y \in {z \in DOMAIN f :
                                           IsWithin(z, s.path)}} |->
                     IF IsWithin(x, q.path)
                     THEN f[s.path \o SubSeq(x, Len(q.path) + 1, Len(x))]
                     ELSE f[x]])))

\* The least inode number no file of f has
FreshIno(f) ==
    CHOOSE k \in 1..(Cardinality(DOMAIN f) + 1) :
        \A x \in DOMAIN f : f[x].ino # k

\* os.link(src, p): p becomes another name of the file src resolves to
HardLink(f, src, p) ==
    With(Kernel(f, src), LAMBDA s : With(Phys(f, p), LAMBDA q :
        IF ~s.ok \/ ~Exists(f, s.path) \/ f[s.path].kind # "file" \/ ~q.ok
            \/ Exists(f, q.path) \/ ~IsDirAt(f, Parent(q.path))
        THEN Failed(f)
        ELSE With([f[s.path] EXCEPT
                      !.ino = IF f[s.path].ino # 0 THEN f[s.path].ino
                              ELSE FreshIno(f)],
                  LAMBDA n : Done(Put(Put(f, s.path, n), q.path, n)))))

\* shutil.rmtree(p) of a directory that is no symbolic link
Rmtree(f, p) == Without(f, {x \in DOMAIN f : IsWithin(x, p)})

----------------------------------------------------------------------------
(* PathSanitizer *)

\* " ", the whitespace str.strip() removes
Whitespace == {" ", "\t", "\n"}

\* ".." in part
HasDotDot(part) ==
    \E i \in 1..(Len(part) - 1) : part[i] = "." /\ part[i + 1] = "."

\* part.replace(".", "").replace("/", "").strip() == ""
OnlyDots(part) ==
    \A i \in 1..Len(part) : part[i] \in {".", "/"} \cup Whitespace

\* The three outcomes of the loop body for one part
PartClass(part) ==
    IF Cat(part) = "." \/ part = <<>> THEN "skip"
    ELSE IF Cat(part) = ".." THEN "reject"
    ELSE IF HasDotDot(part) /\ OnlyDots(part) THEN "reject"
    ELSE "keep"

\* As SanitizeParts, the backslash not replaced: path.split("/")
SanitizePartsForwardOnly(path) == SplitOn(path, {"/"})

\* path.replace("\\", "/").split("/")
SanitizeParts(path) == SplitOn(path, BothSlashes)

Returned(p) == [raised |-> FALSE, path |-> p]
Raised == [raised |-> TRUE, path |-> <<>>]

\* PathSanitizer.sanitize(path, sandbox_path, workspace_name) on file system f.
\* The RuntimeError of Path.resolve() is caught by no handler of sanitize.
sanitize(f, path, sandbox_path, workspace_name) ==
    LET sandbox_resolved == Resolve(f, sandbox_path)
        workspace == Append(sandbox_resolved.path, workspace_name)
    IN  IF ~sandbox_resolved.ok THEN Raised
        ELSE IF IsAbs(path)
        THEN LET resolved == Resolve(f, PathOf(path).parts) IN
             IF ~resolved.ok THEN Raised
             ELSE IF IsWithin(resolved.path, sandbox_resolved.path)
             THEN Returned(resolved.path)
             ELSE Returned(workspace)
        ELSE LET path_parts == SanitizeParts(path)
                 normalized_parts ==
                     Names(SelectSeq(path_parts,
                                     LAMBDA part : PartClass(part) = "keep"))
                 resolved == workspace \o normalized_parts
             IN  IF \E i \in 1..Len(path_parts) :
                        PartClass(path_parts[i]) = "reject"
                 THEN Returned(workspace)
                 ELSE IF normalized_parts = <<>> THEN Returned(workspace)
                 ELSE IF IsWithin(resolved, sandbox_resolved.path)
                 THEN Returned(resolved)
                 ELSE Returned(workspace)

----------------------------------------------------------------------------
(* LocalSandboxBackend: where a session's directory is *)

Letters ==
    {"a", "b", "c", "d", "e", "f", "g", "h", "i", "j", "k", "l", "m",
     "n", "o", "p", "q", "r", "s", "t", "u", "v", "w", "x", "y", "z",
     "A", "B", "C", "D", "E", "F", "G", "H", "I", "J", "K", "L", "M",
     "N", "O", "P", "Q", "R", "S", "T", "U", "V", "W", "X", "Y", "Z"}
Digits == {"0", "1", "2", "3", "4", "5", "6", "7", "8", "9"}

\* c.isalnum() or c in ("-", "_")
SafeIdChar(c) == c \in Letters \cup Digits \cup {"-", "_"}

\* LocalSandboxBackend.base_dir: "/tmp"
base_dir == <<"tmp">>

\* As _get_sandbox_path, the identifier put into the name as it is
get_sandbox_path_unfiltered(session_id) ==
    Join(base_dir, PathOf(<<"noxrunner_sandbox_">> \o session_id))

\* LocalSandboxBackend._get_sandbox_path(session_id)
get_sandbox_path(session_id) ==
    LET safe_id == SelectSeq(session_id, SafeIdChar) IN
    Append(base_dir,
           "noxrunner_sandbox_" \o
               (IF safe_id = <<>> THEN "default" ELSE Cat(safe_id)))

----------------------------------------------------------------------------
(* Bounds and input sets *)

\* The longest path string a call is given
MaxPathLen == 4

StrsUpTo(chars, n) == UNION {[1..k -> chars] : k \in 0..n}

\* The characters of the path strings: a letter, the dot, both slashes and a
\* blank
PathChars == {"a", ".", "/", "\\", " "}

\* str(path)
ToStr(p) ==
    IF p = <<>> THEN <<"/">>
    ELSE LET F[i \in 0..Len(p)] ==
                 IF i = 0 THEN <<>> ELSE F[i - 1] \o <<"/", p[i]>>
         IN  F[Len(p)]

\* The session whose sandbox the sanitizer calls are about
SanSession == <<"a">>
SanRoot == get_sandbox_path(SanSession)

\* Path strings: every short string, and every short string behind the
\* sandbox's workspace directory written out as an absolute path
RawPaths ==
    StrsUpTo(PathChars, MaxPathLen)
        \cup {ToStr(Append(SanRoot, "workspace")) \o <<"/">> \o s :
                  s \in StrsUpTo(PathChars, MaxPathLen)}

\* Outside the sandboxes: /etc/passwd
HostFs ==
    (<<>> :> Dir) @@ (<<"tmp">> :> Dir) @@ (<<"etc">> :> Dir)
        @@ (<<"etc", "passwd">> :> File("host"))

\* _ensure_sandbox: the sandbox directory and its workspace
SandboxDirs(root) == (root :> Dir) @@ (Append(root, "workspace") :> Dir)

\* What a session may have left at workspace/a through the allowed commands
\* mkdir, touch and ln -s: a directory, a file, and links to /etc, to the
\* parent, to the workspace and to itself
SanitizeNodes == {Dir, File("x"), Link(<<"/", "etc">>), Link(<<".", ".">>),
                  Link(<<".">>), Link(<<"a">>)}
SanitizeFs ==
    {HostFs @@ SandboxDirs(SanRoot)}
        \cup {(<<"tmp", "noxrunner_sandbox_a", "workspace", "a">> :> n)
                  @@ HostFs @@ SandboxDirs(SanRoot) : n \in SanitizeNodes}

NoCall == [op |-> "none"]

\* The threads that call the backend
Threads == {1, 2}

Idle == [op |-> "idle"]

\* Where the host process starts
HomeDir == <<"etc">>

\* No backend call is made in the specifications of the pure functions
NoBackend ==
    /\ sys_stderr = [n |-> 0, last |-> ""]
    /\ now = 0
    /\ cwd = HomeDir
    /\ th = [t \in Threads |-> Idle]
    /\ ret = [t \in Threads |-> NoCall]
    /\ ncalls = 0

----------------------------------------------------------------------------
(* The sanitizer as a function of its arguments and the file system *)

InitSanitize ==
    /\ pyver = 311
    /\ fs \in SanitizeFs
    /\ sandboxes = <<>>
    /\ NoBackend
    /\ inp \in {[op |-> "sanitize", path |-> path, root |-> SanRoot] :
                    path \in RawPaths}
    /\ out = NoCall

CallSanitize ==
    /\ inp.op = "sanitize" /\ out = NoCall
    /\ out' = sanitize(fs, inp.path, inp.root, "workspace")
    /\ UNCHANGED <<pyver, sys_stderr, fs, sandboxes, now, cwd, th, ret, ncalls,
                   inp>>

NextSanitize == CallSanitize

SpecSanitize == InitSanitize /\ [][NextSanitize]_vars

\* PathSanitizer.sanitize_filename(filename): Path(filename).name, the last
\* of the segments between "/" that is neither empty nor "."; "" when
\* there is none
sanitize_filename(filename) ==
    With(SelectSeq(SplitOn(filename, {"/"}),
                   LAMBDA seg : seg # <<>> /\ seg # <<".">>),
         LAMBDA p : IF p = <<>> THEN <<>> ELSE p[Len(p)])

InitFilename ==
    /\ pyver = 311
    /\ fs = HostFs
    /\ sandboxes = <<>>
    /\ NoBackend
    /\ inp \in {[op |-> "sanitize_filename", filename |-> filename] :
                    filename \in StrsUpTo(PathChars, MaxPathLen)}
    /\ out = NoCall

CallSanitizeFilename ==
    /\ inp.op = "sanitize_filename" /\ out = NoCall
    /\ out' = [value |-> sanitize_filename(inp.filename)]
    /\ UNCHANGED <<pyver, sys_stderr, fs, sandboxes, now, cwd, th, ret, ncalls,
                   inp>>

NextFilename == CallSanitizeFilename

SpecFilename == InitFilename /\ [][NextFilename]_vars

----------------------------------------------------------------------------
(* LocalSandboxBackend: command validation *)

ALLOWED_COMMANDS ==
    {"echo", "cat", "ls", "pwd", "head", "tail", "grep", "wc", "sort",
     "python", "python3", "python2", "node", "bash", "sh", "zsh", "test",
     "[", "true", "false", "which", "type", "env", "printenv", "mkdir",
     "touch", "cp", "mv", "ln", "readlink", "stat", "file", "find", "xargs",
     "sed", "awk", "cut", "tr", "uniq", "diff", "cmp", "tar", "gzip",
     "gunzip", "zip", "unzip"}

BLOCKED_COMMANDS ==
    {"rm", "rmdir", "unlink", "del", "format", "mkfs", "dd", "fdisk",
     "shutdown", "reboot", "halt", "poweroff", "init", "killall", "sudo",
     "su", "chmod", "chown", "chgrp", "mount", "umount"}

UpperCase ==
    <<"A", "B", "C", "D", "E", "F", "G", "H", "I", "J", "K", "L", "M",
      "N", "O", "P", "Q", "R", "S", "T", "U", "V", "W", "X", "Y", "Z">>
LowerCase ==
    <<"a", "b", "c", "d", "e", "f", "g", "h", "i", "j", "k", "l", "m",
      "n", "o", "p", "q", "r", "s", "t", "u", "v", "w", "x", "y", "z">>

\* str.lower()
Lower(s) ==
    [i \in 1..Len(s) |->
        IF \E k \in 1..Len(UpperCase) : UpperCase[k] = s[i]
        THEN LowerCase[CHOOSE k \in 1..Len(UpperCase) : UpperCase[k] = s[i]]
        ELSE s[i]]

\* command = cmd[0].lower()
CommandName(cmd) == Cat(Lower(cmd[1]))

\* As validate_command, with the allow-set enforced on the first element as
\* it is written
validate_command_allowlisted(cmd) ==
    IF cmd = <<>> THEN FALSE
    ELSE IF CommandName(cmd) \in BLOCKED_COMMANDS THEN FALSE
    ELSE Cat(cmd[1]) \in ALLOWED_COMMANDS

\* As validate_command, the first element compared as it is written
validate_command_as_written(cmd) ==
    IF cmd = <<>> THEN FALSE
    ELSE IF Cat(cmd[1]) \in BLOCKED_COMMANDS THEN FALSE
    ELSE TRUE

\* LocalSandboxBackend._validate_command(cmd)
validate_command(cmd) ==
    IF cmd = <<>> THEN FALSE
    ELSE IF CommandName(cmd) \in BLOCKED_COMMANDS THEN FALSE
    ELSE TRUE

\* The longest command name a call is given
MaxCmdLen == 2

\* The characters of the command names: enough for rm, su (blocked), ls
\* (allowed) and nc (in neither set), in both letter cases
CmdChars == {"r", "m", "R", "M", "s", "u", "S", "l", "n", "c"}

\* What follows the command name
CmdArgs == {<<>>, << <<"-", "r", "f">> >>, << <<"-", "r", "f">>, <<"/">> >>}

Commands ==
    {<<>>} \cup {<<name>> \o args :
                    name \in StrsUpTo(CmdChars, MaxCmdLen), args \in CmdArgs}

InitValidate ==
    /\ pyver = 311
    /\ fs = HostFs
    /\ sandboxes = <<>>
    /\ NoBackend
    /\ inp \in {[op |-> "validate", cmd |-> cmd] : cmd \in Commands}
    /\ out = NoCall

CallValidate ==
    /\ inp.op = "validate" /\ out = NoCall
    /\ out' = [raised |-> FALSE, value |-> validate_command(inp.cmd)]
    /\ UNCHANGED <<pyver, sys_stderr, fs, sandboxes, now, cwd, th, ret, ncalls,
                   inp>>

NextValidate == CallValidate

SpecValidate == InitValidate /\ [][NextValidate]_vars

----------------------------------------------------------------------------
(* tarfile: an archive is a sequence of members [type, name, linkname,     *)
(* data]; type is "file", "dir", "sym" (symbolic link) or "lnk" (hard      *)
(* link).                                                                  *)

FileMember(name, d) ==
    [type |-> "file", name |-> name, linkname |-> <<>>, data |-> d]
DirMember(name) ==
    [type |-> "dir", name |-> name, linkname |-> <<>>, data |-> ""]
SymMember(name, t) ==
    [type |-> "sym", name |-> name, linkname |-> t, data |-> ""]
LnkMember(name, t) ==
    [type |-> "lnk", name |-> name, linkname |-> t, data |-> ""]

\* Has a ".." segment once both slash styles are split on
HasParentPart(s) ==
    \E i \in 1..Len(SplitOn(s, BothSlashes)) :
        Cat(SplitOn(s, BothSlashes)[i]) = ".."

RECURSIVE LStripSlash(_)
\* name.lstrip("/")
LStripSlash(s) ==
    IF s # <<>> /\ Head(s) = "/" THEN LStripSlash(Tail(s)) ELSE s

RECURSIVE Collapse(_, _)
Collapse(done, rest) ==
    IF rest = <<>> THEN done
    ELSE IF Head(rest) = ".." /\ done # <<>> /\ done[Len(done)] # ".."
    THEN Collapse(Parent(done), Tail(rest))
    ELSE Collapse(Append(done, Head(rest)), Tail(rest))

\* os.path.normpath of a member name
Normpath(s) == [abs |-> IsAbs(s), parts |-> Collapse(<<>>, PathOf(s).parts)]

\* tarfile's 'data' filter (Python 3.12 and later) on member m extracted
\* under dest: ok is FALSE when it raises a FilterError, else member is m
\* with the leading slashes of its name stripped.
DataFilter(f, m, dest) ==
    With(Resolve(f, dest).path, LAMBDA dest_path :
    With(LStripSlash(m.name), LAMBDA name :
    With(Resolve(f, dest_path \o PathOf(name).parts).path,
         LAMBDA target_path :
    With(IF m.type = "sym"
         THEN Resolve(f, Join(Parent(dest_path \o PathOf(name).parts),
                              PathOf(m.linkname))).path
         ELSE Resolve(f, Join(dest_path, PathOf(m.linkname))).path,
         LAMBDA link_path :
        IF ~IsWithin(target_path, dest_path)
        THEN [ok |-> FALSE, member |-> m]
        ELSE IF m.type \in {"sym", "lnk"}
                  /\ (IsAbs(m.linkname) \/ ~IsWithin(link_path, dest_path))
        THEN [ok |-> FALSE, member |-> m]
        ELSE [ok |-> TRUE, member |-> [m EXCEPT !.name = name]]))))

\* The member a link falls back to (TarFile._find_link_target): for the
\* hard link at index i the last member before it named like its linkname,
\* for a symbolic link the last member of the archive named like its target;
\* names are compared normalized.  0 when there is none (KeyError).
FindLinkTarget(archive, i) ==
    With(archive[i], LAMBDA m :
    With(IF m.type = "sym"
         THEN Collapse(<<>>, Join(Parent(PathOf(m.name).parts),
                                  PathOf(m.linkname)))
         ELSE Normpath(m.linkname).parts,
         LAMBDA wanted :
    With({k \in 1..(IF m.type = "sym" THEN Len(archive) ELSE i - 1) :
             Normpath(archive[k].name).parts = wanted},
         LAMBDA hits :
        IF hits = {} THEN 0
        ELSE CHOOSE k \in hits : \A j \in hits : j <= k)))

\* How deep one link member falls back to other members
MaxFallback == 2

\* The result of extracting one member: "ok", "oserror" (OSError) or
\* "keyerror" (the KeyError of _find_link_target)
Ext(what, f) == [what |-> what, fs |-> f]
OfCall(r) == Ext(IF r.ok THEN "ok" ELSE "oserror", r.fs)

RECURSIVE ExtractTo(_, _, _, _, _, _)
\* TarFile._extract_member(archive[i], targetpath), extracting under path:
\* the upper directories are made; a file is written through whatever is at
\* targetpath; a symbolic link replaces what is there; a hard link is made
\* to the file its linkname names under path, or, when that does not exist,
\* the member of that name is extracted in its place.  When a link cannot
\* be made (OSError), the member it points to is extracted in its place,
\* and when the archive has none the error is dropped (ExtractError at
\* errorlevel 1).  nested: the member is extracted in place of a link.
ExtractTo(f, archive, i, targetpath, path, depth) ==
    With(archive[i], LAMBDA m :
    With(IF PathExists(f, Parent(targetpath)) THEN Done(f)
         ELSE MkdirParents(f, Parent(targetpath)),
         LAMBDA up :
    With(up.fs, LAMBDA g :
    With(FindLinkTarget(archive, i), LAMBDA k :
        IF ~up.ok THEN OfCall(up)
        ELSE IF m.type = "file" THEN OfCall(WriteFile(g, targetpath, m.data))
        ELSE IF m.type = "dir"
        THEN IF LExists(g, targetpath) THEN Ext("ok", g)
             ELSE With(Phys(g, targetpath), LAMBDA q :
                      IF ~q.ok \/ ~IsDirAt(g, Parent(q.path))
                      THEN Ext("oserror", g)
                      ELSE Ext("ok", Put(g, q.path, Dir)))
        ELSE With(IF m.type = "sym"
                  THEN With(IF LExists(g, targetpath)
                            THEN Unlink(g, targetpath) ELSE Done(g),
                            LAMBDA gone :
                           IF ~gone.ok THEN OfCall(gone)
                           ELSE OfCall(Symlink(gone.fs, m.linkname,
                                               targetpath)))
                  ELSE IF depth < MaxFallback THEN Ext("oserror", g)
                  ELSE IF PathExists(g, Join(path, PathOf(m.linkname)))
                  THEN OfCall(HardLink(g, Join(path, PathOf(m.linkname)),
                                       targetpath))
                  ELSE IF k = 0 THEN Ext("keyerror", g)
                  ELSE ExtractTo(g, archive, k, targetpath, path, depth - 1),
                  LAMBDA first :
                 IF first.what # "oserror" THEN first
                 ELSE IF k = 0 THEN Ext("ok", first.fs)
                 ELSE IF depth = 0 THEN Ext("oserror", first.fs)
                 ELSE ExtractTo(first.fs, archive, k, targetpath, path,
                                depth - 1))))))

\* TarFile.extract(member, path, filter=...) of member i of the archive.
\* filter is "data" or "trusted" (no filtering).  ok is FALSE when the call
\* raises (FilterError, OSError, KeyError).
TarExtract(f, archive, i, path, filter) ==
    With(IF filter = "data" THEN DataFilter(f, archive[i], path)
         ELSE [ok |-> TRUE, member |-> archive[i]],
         LAMBDA filtered :
        IF ~filtered.ok THEN Failed(f)
        ELSE With(ExtractTo(f, [archive EXCEPT ![i] = filtered.member], i,
                            Join(path, PathOf(filtered.member.name)), path,
                            MaxFallback),
                  LAMBDA r : IF r.what = "ok" THEN Done(r.fs)
                             ELSE Failed(r.fs)))

----------------------------------------------------------------------------
(* TarHandler *)

\* TarHandler._is_safe_member(member, dest): "safe", "unsafe", or "raise"
\* when Path.resolve() meets a symbolic-link loop (RuntimeError is not the
\* ValueError the check catches).
is_safe_member(f, member, dest) ==
    IF IsAbs(member.name) THEN "unsafe"
    ELSE IF HasParentPart(member.name) THEN "unsafe"
    ELSE With(Resolve(f, Join(dest, PathOf(member.name))),
              LAMBDA target_path :
         With(Resolve(f, dest), LAMBDA dest_resolved :
             IF ~target_path.ok \/ ~dest_resolved.ok THEN "raise"
             ELSE IF ~IsWithin(target_path.path, dest_resolved.path)
             THEN "unsafe"
             ELSE IF member.type \in {"sym", "lnk"}
                       /\ (IsAbs(member.linkname)
                             \/ HasParentPart(member.linkname))
             THEN "unsafe"
             ELSE "safe"))

\* The outcome of extract_tar for one member: "skip" (continue), "raise", or
\* "write" with the file system after the member is extracted.
ExtractMember(f, archive, i, dest, sandbox_path, allow_absolute, py) ==
    With(archive[i], LAMBDA member :
    With(IF allow_absolute THEN "safe" ELSE is_safe_member(f, member, dest),
         LAMBDA safe :
    With(Join(dest, PathOf(member.name)), LAMBDA target_path :
        IF member.type = "dir" THEN [what |-> "skip", fs |-> f]
        ELSE IF safe = "unsafe" THEN [what |-> "skip", fs |-> f]
        ELSE IF safe = "raise" THEN [what |-> "raise", fs |-> f]
        ELSE
        With(Resolve(f, target_path), LAMBDA resolved :
        With(Resolve(f, sandbox_path), LAMBDA root :
            IF sandbox_path # <<"None">> /\ (~resolved.ok \/ ~root.ok)
            THEN [what |-> "raise", fs |-> f]
            ELSE IF sandbox_path # <<"None">>
                      /\ ~IsWithin(resolved.path, root.path)
            THEN [what |-> "skip", fs |-> f]
            ELSE
            With(MkdirParents(f, Parent(target_path)), LAMBDA made :
                IF ~made.ok THEN [what |-> "raise", fs |-> made.fs]
                ELSE
                With(TarExtract(made.fs, archive, i, dest,
                                IF py >= 312 THEN "data" ELSE "trusted"),
                     LAMBDA got :
                    IF ~got.ok THEN [what |-> "raise", fs |-> got.fs]
                    ELSE [what |-> "write", fs |-> got.fs])))))))

RECURSIVE ExtractFrom(_, _, _, _, _, _, _, _)
\* The loop of extract_tar from member i on, file_count files written so far
ExtractFrom(f, archive, i, file_count, dest, sandbox_path, allow_absolute, py) ==
    IF i > Len(archive)
    THEN [raised |-> FALSE, value |-> file_count, fs |-> f, at |-> 0]
    ELSE With(ExtractMember(f, archive, i, dest, sandbox_path,
                            allow_absolute, py),
              LAMBDA r :
             IF r.what = "raise"
             THEN [raised |-> TRUE, value |-> file_count, fs |-> r.fs,
                   at |-> i]
             ELSE ExtractFrom(r.fs, archive, i + 1,
                              IF r.what = "write" THEN file_count + 1
                              ELSE file_count,
                              dest, sandbox_path, allow_absolute, py))

\* TarHandler.extract_tar(tar_data, dest, sandbox_path, allow_absolute).
\* tar_data is [empty, members]: empty when the blob has no bytes.
\* The result: whether it raised, the count returned, the file system
\* afterwards, and the index of the member it raised at (0: none).
extract_tar(f, tar_data, dest, sandbox_path, allow_absolute, py) ==
    IF tar_data.empty
    THEN [raised |-> FALSE, value |-> 0, fs |-> f, at |-> 0]
    ELSE With(MkdirParents(f, dest), LAMBDA made :
             IF ~made.ok
             THEN [raised |-> TRUE, value |-> 0, fs |-> made.fs, at |-> 0]
             ELSE ExtractFrom(made.fs, tar_data.members, 1, 0, dest,
                              sandbox_path, allow_absolute, py))

\* The most members an archive has
MaxMembers == 2

RECURSIVE SeqsUpTo(_, _)
SeqsUpTo(S, n) ==
    IF n = 0 THEN {<<>>}
    ELSE LET shorter == SeqsUpTo(S, n - 1) IN
         shorter \cup {Append(q, x) : q \in shorter, x \in S}

\* Where the archives are unpacked: /tmp/dl, which does not exist yet
TarDest == <<"tmp", "dl">>

\* The members of the archives: files with plain, nested, parent-relative,
\* absolute and backslash names; a directory; symbolic links and hard links
\* with plain, parent-relative and absolute targets.
TarMembers ==
    {FileMember(<<"a">>, "1"), FileMember(<<"a", "/", "x">>, "2"),
     FileMember(<<".", ".", "/", ".", ".", "/", "e", "t", "c", "/", "x">>, "3"),
     FileMember(<<"/", "e", "t", "c", "/", "x">>, "4"),
     FileMember(<<".", ".", "\\", "x">>, "5"),
     FileMember(<<"h">>, "6"),
     DirMember(<<"a">>),
     SymMember(<<"a">>, <<".">>), SymMember(<<"a">>, <<"b">>),
     SymMember(<<"a">>, <<".", ".", "/", ".", ".", "/", "e", "t", "c">>),
     SymMember(<<"a">>, <<"/", "e", "t", "c">>),
     LnkMember(<<"h">>, <<"a">>),
     LnkMember(<<"h">>,
               <<".", ".", "/", ".", ".", "/", "e", "t", "c", "/", "passwd">>),
     LnkMember(<<"h">>, <<"/", "e", "t", "c", "/", "passwd">>)}

Archives ==
    {[empty |-> TRUE, members |-> <<>>]}
        \cup {[empty |-> FALSE, members |-> ms] :
                  ms \in SeqsUpTo(TarMembers, MaxMembers)}

InitTar ==
    /\ pyver \in {311, 312}
    /\ fs = HostFs
    /\ sandboxes = <<>>
    /\ NoBackend
    /\ inp \in {[op |-> "extract_tar", tar_data |-> a, dest |-> TarDest,
                 sandbox_path |-> sp, allow_absolute |-> aa] :
                    a \in Archives, sp \in {<<"None">>, TarDest},
                    aa \in BOOLEAN}
    /\ out = NoCall

CallExtractTar ==
    /\ inp.op = "extract_tar" /\ out = NoCall
    /\ \E r \in {extract_tar(fs, inp.tar_data, inp.dest, inp.sandbox_path,
                             inp.allow_absolute, pyver)} :
           /\ out' = [raised |-> r.raised, value |-> r.value, at |-> r.at]
           /\ fs' = r.fs
    /\ UNCHANGED <<pyver, sys_stderr, sandboxes, now, cwd, th, ret, ncalls,
                   inp>>

NextTar == CallExtractTar

SpecTar == InitTar /\ [][NextTar]_vars

----------------------------------------------------------------------------
(* TarHandler.create_tar, and what it makes unpacked again *)

\* As create_tar, info.size of every member left at 0
create_tar_sizeless(files) ==
    [empty |-> FALSE,
     members |-> [i \in 1..Len(files) |-> FileMember(files[i][1], "")]]

\* TarHandler.create_tar(files), files the items of the dict in their
\* order, as <<name, content>>: one regular-file member for each, named as
\* the item is.  The blob is never empty, a tar without members has bytes.
create_tar(files) ==
    [empty |-> FALSE,
     members |-> [i \in 1..Len(files) |-> FileMember(files[i][1],
                                                      files[i][2])]]

\* The most items the files dict has
MaxEntries == 2

\* The names packed: a, b, a/b, ./a, a\b and ../b
PackNames ==
    {<<"a">>, <<"b">>, <<"a", "/", "b">>, <<".", "/", "a">>,
     <<"a", "\\", "b">>, <<".", ".", "/", "b">>}

\* The files dicts: their names differ as strings
FileDicts ==
    {fl \in SeqsUpTo(PackNames \X {"1", "2"}, MaxEntries) :
        \A i, j \in 1..Len(fl) : i # j => fl[i][1] # fl[j][1]}

InitRoundTrip ==
    /\ pyver \in {311, 312}
    /\ fs = HostFs
    /\ sandboxes = <<>>
    /\ NoBackend
    /\ inp \in {[op |-> "round_trip", files |-> fl] : fl \in FileDicts}
    /\ out = NoCall

\* extract_tar(create_tar(files), dest) with a dest that is not there yet
CallRoundTrip ==
    /\ inp.op = "round_trip" /\ out = NoCall
    /\ \E r \in {extract_tar(fs, create_tar(inp.files), TarDest, <<"None">>,
                             FALSE, pyver)} :
           /\ out' = [raised |-> r.raised, value |-> r.value, at |-> r.at]
           /\ fs' = r.fs
    /\ UNCHANGED <<pyver, sys_stderr, sandboxes, now, cwd, th, ret, ncalls,
                   inp>>

NextRoundTrip == CallRoundTrip

SpecRoundTrip == InitRoundTrip /\ [][NextRoundTrip]_vars

----------------------------------------------------------------------------
(* LocalSandboxBackend: the operations *)

\* Path(p).mkdir(exist_ok=True)
Mkdir(f, p) ==
    With(Phys(f, p), LAMBDA q :
        IF ~q.ok THEN Failed(f)
        ELSE IF Exists(f, q.path)
        THEN IF PathIsDir(f, p) THEN Done(f) ELSE Failed(f)
        ELSE IF ~IsDirAt(f, Parent(q.path)) THEN Failed(f)
        ELSE Done(Put(f, q.path, Dir)))

\* As _ensure_sandbox, the directory emptied before it is made
ensure_sandbox_emptied(f, session_id) ==
    With(get_sandbox_path(session_id), LAMBDA sandbox_path :
    With(MkdirParents(Rmtree(f, sandbox_path), sandbox_path), LAMBDA made :
        IF ~made.ok THEN [ok |-> FALSE, fs |-> made.fs, path |-> sandbox_path]
        ELSE With(Mkdir(made.fs, Append(sandbox_path, "workspace")),
                  LAMBDA workspace :
                 [ok |-> workspace.ok, fs |-> workspace.fs,
                  path |-> sandbox_path])))

\* LocalSandboxBackend._ensure_sandbox(session_id)
ensure_sandbox(f, session_id) ==
    With(get_sandbox_path(session_id), LAMBDA sandbox_path :
    With(MkdirParents(f, sandbox_path), LAMBDA made :
        IF ~made.ok THEN [ok |-> FALSE, fs |-> made.fs, path |-> sandbox_path]
        ELSE With(Mkdir(made.fs, Append(sandbox_path, "workspace")),
                  LAMBDA workspace :
                 [ok |-> workspace.ok, fs |-> workspace.fs,
                  path |-> sandbox_path])))

\* The default of create_sandbox's ttl_seconds
DefaultTTL == 900

\* LocalSandboxBackend.create_sandbox(session_id, ttl_seconds), the clock
\* reading t_expires when expires_at is computed and t_created when the
\* record is stored.
create_sandbox(f, regs, session_id, ttl_seconds, t_expires, t_created) ==
    With(ensure_sandbox(f, session_id), LAMBDA made :
    With(t_expires + ttl_seconds, LAMBDA expires_at :
        IF ~made.ok
        THEN [raised |-> TRUE, fs |-> made.fs, sandboxes |-> regs,
              value |-> "None"]
        ELSE [raised |-> FALSE, fs |-> made.fs,
              sandboxes |->
                  (session_id :> [path |-> made.path,
                                  created_at |-> t_created,
                                  expires_at |-> expires_at,
                                  ttl_seconds |-> ttl_seconds]) @@ regs,
              value |-> [podName |-> "local-" \o Cat(session_id),
                         expiresAt |-> expires_at]]))

\* As AutoCreate, create_sandbox called whether the registry has a record
\* or not
AutoCreateAlways(f, regs, session_id, t) ==
    create_sandbox(f, regs, session_id, DefaultTTL, t, t)

\* if session_id not in self._sandboxes: self.create_sandbox(session_id)
AutoCreate(f, regs, session_id, t) ==
    IF session_id \in DOMAIN regs
    THEN [raised |-> FALSE, fs |-> f, sandboxes |-> regs, value |-> "None"]
    ELSE create_sandbox(f, regs, session_id, DefaultTTL, t, t)

\* LocalSandboxBackend.touch(session_id) at clock t: the sandbox is created
\* when the registry has no record of it, else expires_at is computed anew
\* from the ttl_seconds the record has.
touch(f, regs, session_id, t) ==
    IF session_id \notin DOMAIN regs
    THEN With(create_sandbox(f, regs, session_id, DefaultTTL, t, t),
              LAMBDA c :
             [raised |-> c.raised, fs |-> c.fs, sandboxes |-> c.sandboxes,
              value |-> IF c.raised THEN "None" ELSE TRUE])
    ELSE [raised |-> FALSE, fs |-> f,
          sandboxes |->
              [regs EXCEPT ![session_id].expires_at =
                               t + regs[session_id].ttl_seconds],
          value |-> TRUE]

\* LocalSandboxBackend.wait_for_pod_ready(session_id) at clock t: the
\* sandbox is created when the registry has no record of it, and True is
\* returned with no probe run
wait_for_pod_ready(f, regs, session_id, t) ==
    With(AutoCreate(f, regs, session_id, t), LAMBDA c :
        [raised |-> c.raised, fs |-> c.fs, sandboxes |-> c.sandboxes,
         value |-> IF c.raised THEN "None" ELSE TRUE])

\* LocalSandboxBackend._sanitize_path(path, sandbox_path).  A symbolic-link
\* loop makes Path.resolve() raise RuntimeError, which no handler catches.
sanitize_path(f, path, sandbox_path) ==
    With(Resolve(f, sandbox_path), LAMBDA sandbox_resolved :
    With(Append(sandbox_resolved.path, "workspace"), LAMBDA workspace :
    With(IF IsAbs(path) THEN Resolve(f, PathOf(path).parts)
         ELSE Resolve(f, Join(workspace, PathOf(path))),
         LAMBDA resolved :
        IF ~sandbox_resolved.ok \/ ~resolved.ok THEN Raised
        ELSE IF IsWithin(resolved.path, sandbox_resolved.path)
        THEN Returned(resolved.path)
        ELSE Returned(workspace))))

\* dest_path / Path(name).name
Under(dest_path, name) ==
    IF PathName(name) = "" THEN dest_path
    ELSE Append(dest_path, PathName(name))

RECURSIVE WriteFiles(_, _, _, _)
\* The loop of upload_files from entry i on; files is the dict in insertion
\* order, a sequence of <<filepath, content>>.
WriteFiles(f, files, i, dest_path) ==
    IF i > Len(files) THEN Done(f)
    ELSE With(WriteFile(f, Under(dest_path, files[i][1]), files[i][2]),
              LAMBDA w :
             IF ~w.ok THEN w ELSE WriteFiles(w.fs, files, i + 1, dest_path))

\* What a backend operation did: whether it raised, what it returned, and
\* the file system and the registry afterwards
Outcome(raised, value, f, regs) ==
    [raised |-> raised, value |-> value, fs |-> f, sandboxes |-> regs]

\* LocalSandboxBackend.upload_files(session_id, files, dest) at clock t
upload_files(f, regs, session_id, files, dest, t) ==
    With(AutoCreate(f, regs, session_id, t), LAMBDA had :
        IF had.raised THEN Outcome(TRUE, "None", had.fs, had.sandboxes)
        ELSE
        With(had.sandboxes[session_id].path, LAMBDA sandbox_path :
        With(sanitize_path(had.fs, dest, sandbox_path), LAMBDA dest_path :
            IF dest_path.raised
            THEN Outcome(TRUE, "None", had.fs, had.sandboxes)
            ELSE
            With(MkdirParents(had.fs, dest_path.path), LAMBDA made :
                IF ~made.ok
                THEN Outcome(TRUE, "None", made.fs, had.sandboxes)
                ELSE
                With(WriteFiles(made.fs, files, 1, dest_path.path),
                     LAMBDA written :
                    Outcome(~written.ok,
                            IF written.ok THEN TRUE ELSE "None",
                            written.fs, had.sandboxes))))))

\* What download_files puts into the archive for src_path, as the set of
\* <<arcname, node>>: the file itself under its name, or what os.walk
\* finds below the directory (it does not go into symbolic links to
\* directories, and lists them with the directories, not with the files)
DownloadMembers(f, src_path) ==
    IF PathIsFile(f, src_path)
    THEN {<< <<src_path[Len(src_path)]>>, f[src_path] >>}
    ELSE IF PathIsDir(f, src_path)
    THEN {<<SubSeq(x, Len(src_path) + 1, Len(x)), f[x]>> :
             x \in {y \in DOMAIN f :
                       /\ IsWithin(y, src_path) /\ y # src_path
                       /\ f[y].kind # "dir"
                       /\ ~(f[y].kind = "link" /\ PathIsDir(f, y))}}
    ELSE {}

\* As download_files, the sandbox created when the registry has no record
\* of the session
download_files_lazy(f, regs, session_id, src, t) ==
    With(AutoCreate(f, regs, session_id, t), LAMBDA had :
        IF had.raised THEN Outcome(TRUE, "OSError", had.fs, had.sandboxes)
        ELSE
        With(sanitize_path(had.fs, src, had.sandboxes[session_id].path),
             LAMBDA src_path :
            IF src_path.raised
            THEN Outcome(TRUE, "RuntimeError", had.fs, had.sandboxes)
            ELSE IF ~PathExists(had.fs, src_path.path)
            THEN Outcome(TRUE, "ValueError", had.fs, had.sandboxes)
            ELSE Outcome(FALSE,
                         [members |-> DownloadMembers(had.fs, src_path.path)],
                         had.fs, had.sandboxes)))

\* LocalSandboxBackend.download_files(session_id, src) at clock t.  When it
\* raises, value is the name of the exception.
download_files(f, regs, session_id, src, t) ==
    IF session_id \notin DOMAIN regs
    THEN Outcome(TRUE, "ValueError", f, regs)
    ELSE
    With(sanitize_path(f, src, regs[session_id].path), LAMBDA src_path :
        IF src_path.raised THEN Outcome(TRUE, "RuntimeError", f, regs)
        ELSE IF ~PathExists(f, src_path.path)
        THEN Outcome(TRUE, "ValueError", f, regs)
        ELSE Outcome(FALSE, [members |-> DownloadMembers(f, src_path.path)],
                     f, regs))

\* The filter tar.extract() applies when it is given none: 'data' from
\* Python 3.14 on, none before
DefaultFilter(py) == IF py >= 314 THEN "data" ELSE "trusted"

RECURSIVE UploadMembers(_, _, _, _, _, _)
\* The loop of upload_tar from member i on
UploadMembers(f, archive, i, dest_path, sandbox_path, py) ==
    IF i > Len(archive) THEN Done(f)
    ELSE
    With(archive[i], LAMBDA member :
    With(Under(dest_path, member.name), LAMBDA target :
    With(Resolve(f, target), LAMBDA resolved :
    With(Resolve(f, sandbox_path), LAMBDA root :
        IF ~resolved.ok \/ ~root.ok THEN Failed(f)
        ELSE IF ~IsWithin(resolved.path, root.path)
        THEN UploadMembers(f, archive, i + 1, dest_path, sandbox_path, py)
        ELSE IF member.type # "file"
        THEN UploadMembers(f, archive, i + 1, dest_path, sandbox_path, py)
        ELSE
        With(TarExtract(f, archive, i, dest_path, DefaultFilter(py)),
             LAMBDA got :
            IF ~got.ok THEN got
            ELSE UploadMembers(got.fs, archive, i + 1, dest_path,
                               sandbox_path, py))))))

\* LocalSandboxBackend.upload_tar(session_id, tar_data, dest) at clock t;
\* tarfile.open raises ReadError on a blob without bytes.
upload_tar(f, regs, session_id, tar_data, dest, t, py) ==
    With(AutoCreate(f, regs, session_id, t), LAMBDA had :
        IF had.raised THEN Outcome(TRUE, "None", had.fs, had.sandboxes)
        ELSE
        With(had.sandboxes[session_id].path, LAMBDA sandbox_path :
        With(sanitize_path(had.fs, dest, sandbox_path), LAMBDA dest_path :
            IF dest_path.raised
            THEN Outcome(TRUE, "None", had.fs, had.sandboxes)
            ELSE
            With(MkdirParents(had.fs, dest_path.path), LAMBDA made :
                IF ~made.ok
                THEN Outcome(TRUE, "None", made.fs, had.sandboxes)
                ELSE IF tar_data.empty
                THEN Outcome(TRUE, "None", made.fs, had.sandboxes)
                ELSE
                With(UploadMembers(made.fs, tar_data.members, 1,
                                   dest_path.path, sandbox_path, py),
                     LAMBDA done :
                    Outcome(~done.ok, IF done.ok THEN TRUE ELSE "None",
                            done.fs, had.sandboxes))))))

\* The dict exec returns
ExecResult(exit_code, stdout, stderr, duration_ms) ==
    [exitCode |-> exit_code, stdout |-> stdout, stderr |-> stderr,
     durationMs |-> duration_ms]

RECURSIVE JoinWords(_)
\* " ".join(cmd)
JoinWords(cmd) ==
    IF cmd = <<>> THEN ""
    ELSE IF Len(cmd) = 1 THEN Cat(cmd[1])
    ELSE Cat(cmd[1]) \o " " \o JoinWords(Tail(cmd))

\* The message of the warning __init__ prints
InitWarning == "Local sandbox mode is enabled."

\* The message of the warning exec prints for cmd
ExecWarning(cmd) ==
    "Executing command in LOCAL environment: " \o JoinWords(cmd)

\* _print_warning(message, critical): sys.stderr with the warning printed
Printed(err, message) == [n |-> err.n + 1, last |-> message]

\* The result of an exec that has not run its command yet
Unset == ExecResult(0, "", "", 0)

\* What exec returns for a command that is not allowed
NotAllowed(cmd) ==
    ExecResult(1, "",
               "Command not allowed: "
                   \o (IF cmd = <<>> THEN "empty" ELSE Cat(cmd[1])),
               0)

\* How the child process of subprocess.run ends: it exits, it exits having
\* written bytes that are no UTF-8 (text=True makes subprocess.run decode
\* what it captured), it is killed at the timeout, its program is not
\* found, or the spawn fails otherwise
ProcessEnds == {"exit", "undecodable", "timeout", "notfound", "error"}

\* The child process of cmd in dir, run to its end.  Of the programs of the
\* host, echo prints its argument, "ln -s target name" makes a symbolic
\* link in dir and "mv src dst" renames src of dir (into dst, when dst is a
\* directory); any other program exits with 0 and leaves the file system
\* alone.
ChildProcess(f, cmd, dir) ==
    With(Kernel(f, dir).path, LAMBDA here :
    With(IF Cat(cmd[1]) = "ln" /\ Len(cmd) = 4
         THEN Symlink(f, cmd[3], Under(here, cmd[4]))
         ELSE IF Cat(cmd[1]) = "mv" /\ Len(cmd) = 3
         THEN Rename(f, Under(here, cmd[2]),
                     IF PathIsDir(f, Under(here, cmd[3]))
                     THEN Under(Under(here, cmd[3]), cmd[2])
                     ELSE Under(here, cmd[3]))
         ELSE Done(f),
         LAMBDA did :
        [fs |-> did.fs,
         returncode |-> IF did.ok THEN 0 ELSE 1,
         stdout |-> IF Cat(cmd[1]) = "echo" /\ Len(cmd) > 1
                    THEN Cat(cmd[2]) \o "\n" ELSE "",
         stderr |-> ""]))

\* subprocess.run(cmd, cwd=dir, timeout=...) and the except clauses around
\* it.  A dir that is gone is reported as FileNotFoundError, a dir that is
\* no directory as another OSError, output that cannot be decoded as
\* UnicodeDecodeError once the child has exited.
RunProcess(f, cmd, dir, how, duration_ms) ==
    With(Cat(cmd[1]), LAMBDA program :
        IF ~PathExists(f, dir) \/ how = "notfound"
        THEN [fs |-> f,
              result |-> ExecResult(127, "",
                                    "Command not found: " \o program,
                                    duration_ms)]
        ELSE IF ~PathIsDir(f, dir) \/ how = "error"
        THEN [fs |-> f,
              result |-> ExecResult(1, "", "Execution error: ", duration_ms)]
        ELSE IF how = "timeout"
        THEN [fs |-> f,
              result |-> ExecResult(124, "", "Command timed out after ",
                                    duration_ms)]
        ELSE
        With(ChildProcess(f, cmd, dir), LAMBDA child :
            [fs |-> child.fs,
             result |-> IF how = "undecodable"
                        THEN ExecResult(1, "",
                                        "Execution error: 'utf-8' codec "
                                            \o "can't decode byte",
                                        duration_ms)
                        ELSE ExecResult(child.returncode, child.stdout,
                                        child.stderr, duration_ms)]))

----------------------------------------------------------------------------
(* LocalSandboxBackend: the calls of its threads.  create_sandbox,         *)
(* upload_files and upload_tar are one step each; exec and delete_sandbox  *)
(* are taken statement by statement, so that the calls of two threads      *)
(* interleave where the interpreter can switch threads.                    *)

\* The most backend calls of one run
MaxCalls == 3

\* The latest clock reading
MaxClock == 1

\* Thread t is about to make a call
Begin(t) == th[t] = Idle /\ ncalls < MaxCalls

\* How call number n, op(session_id, ...), ended
Ended(op, session_id, n, raised, value) ==
    [op |-> op, sid |-> session_id, n |-> n, raised |-> raised,
     value |-> value]

\* Thread t leaves its call
Return(t, raised, value) ==
    /\ ret' = [ret EXCEPT ![t] = Ended(th[t].op, th[t].sid, th[t].n, raised,
                                        value)]
    /\ th' = [th EXCEPT ![t] = Idle]

\* Thread t moves on to the statement at pc
Goto(t, pc) ==
    /\ th' = [th EXCEPT ![t].pc = pc]
    /\ UNCHANGED ret

\* create_sandbox(session_id, ttl_seconds); the clock advances by d between
\* its two readings
CreateSandbox(t, session_id, ttl_seconds, d) ==
    /\ Begin(t) /\ now + d <= MaxClock
    /\ \E c \in {create_sandbox(fs, sandboxes, session_id, ttl_seconds, now,
                                now + d)} :
           /\ fs' = c.fs
           /\ sandboxes' = c.sandboxes
           /\ ret' = [ret EXCEPT ![t] = Ended("create_sandbox", session_id,
                                               ncalls + 1, c.raised, c.value)]
    /\ now' = now + d
    /\ ncalls' = ncalls + 1
    /\ UNCHANGED <<pyver, sys_stderr, cwd, th, inp, out>>

\* upload_files(session_id, files, dest)
UploadFiles(t, session_id, files, dest) ==
    /\ Begin(t)
    /\ \E r \in {upload_files(fs, sandboxes, session_id, files, dest, now)} :
           /\ fs' = r.fs
           /\ sandboxes' = r.sandboxes
           /\ ret' = [ret EXCEPT ![t] = Ended("upload_files", session_id,
                                               ncalls + 1, r.raised, r.value)]
    /\ ncalls' = ncalls + 1
    /\ UNCHANGED <<pyver, sys_stderr, now, cwd, th, inp, out>>

\* upload_tar(session_id, tar_data, dest)
UploadTar(t, session_id, tar_data, dest) ==
    /\ Begin(t)
    /\ \E r \in {upload_tar(fs, sandboxes, session_id, tar_data, dest, now,
                            pyver)} :
           /\ fs' = r.fs
           /\ sandboxes' = r.sandboxes
           /\ ret' = [ret EXCEPT ![t] = Ended("upload_tar", session_id,
                                               ncalls + 1, r.raised, r.value)]
    /\ ncalls' = ncalls + 1
    /\ UNCHANGED <<pyver, sys_stderr, now, cwd, th, inp, out>>

\* download_files(session_id, src)
DownloadFiles(t, session_id, src) ==
    /\ Begin(t)
    /\ \E r \in {download_files(fs, sandboxes, session_id, src, now)} :
           /\ fs' = r.fs
           /\ sandboxes' = r.sandboxes
           /\ ret' = [ret EXCEPT ![t] = Ended("download_files", session_id,
                                               ncalls + 1, r.raised, r.value)]
    /\ ncalls' = ncalls + 1
    /\ UNCHANGED <<pyver, sys_stderr, now, cwd, th, inp, out>>

\* As exec begins, the warning printed when none was printed before
ExecBeginWarnedOnce(t, session_id, cmd, workdir) ==
    /\ Begin(t)
    /\ \E c \in {AutoCreate(fs, sandboxes, session_id, now)} :
           /\ fs' = c.fs
           /\ sandboxes' = c.sandboxes
           /\ IF c.raised
              THEN /\ ret' = [ret EXCEPT ![t] = Ended("exec", session_id,
                                                       ncalls + 1, TRUE,
                                                       "None")]
                   /\ UNCHANGED th
              ELSE /\ th' = [th EXCEPT ![t] =
                                [op |-> "exec", pc |-> "lookup",
                                 sid |-> session_id, n |-> ncalls + 1,
                                 cmd |-> cmd, workdir |-> workdir,
                                 sandbox_path |-> <<>>,
                                 workdir_path |-> <<>>,
                                 original_cwd |-> <<>>, result |-> Unset]]
                   /\ UNCHANGED ret
    /\ sys_stderr' = IF sys_stderr.n > 0 THEN sys_stderr
                   ELSE Printed(sys_stderr, ExecWarning(cmd))
    /\ ncalls' = ncalls + 1
    /\ UNCHANGED <<pyver, now, cwd, inp, out>>

\* exec(session_id, cmd, workdir), lines 279-287: the warning is printed,
\* and the sandbox is created when the registry has no record of the session
ExecBegin(t, session_id, cmd, workdir) ==
    /\ Begin(t)
    /\ \E c \in {AutoCreate(fs, sandboxes, session_id, now)} :
           /\ fs' = c.fs
           /\ sandboxes' = c.sandboxes
           /\ IF c.raised
              THEN /\ ret' = [ret EXCEPT ![t] = Ended("exec", session_id,
                                                       ncalls + 1, TRUE,
                                                       "None")]
                   /\ UNCHANGED th
              ELSE /\ th' = [th EXCEPT ![t] =
                                [op |-> "exec", pc |-> "lookup",
                                 sid |-> session_id, n |-> ncalls + 1,
                                 cmd |-> cmd, workdir |-> workdir,
                                 sandbox_path |-> <<>>,
                                 workdir_path |-> <<>>,
                                 original_cwd |-> <<>>, result |-> Unset]]
                   /\ UNCHANGED ret
    /\ sys_stderr' = Printed(sys_stderr, ExecWarning(cmd))
    /\ ncalls' = ncalls + 1
    /\ UNCHANGED <<pyver, now, cwd, inp, out>>

\* As the lookup of exec, the command not validated
ExecLookupUnchecked(t) ==
    /\ th[t].op = "exec" /\ th[t].pc = "lookup"
    /\ IF th[t].sid \notin DOMAIN sandboxes THEN Return(t, TRUE, "None")
       ELSE /\ th' = [th EXCEPT ![t].pc = "prepare",
                                ![t].sandbox_path = sandboxes[th[t].sid].path]
            /\ UNCHANGED ret
    /\ UNCHANGED <<pyver, sys_stderr, fs, sandboxes, now, cwd, ncalls, inp,
                   out>>

\* exec, lines 289-299: the record is looked up (KeyError when it is gone)
\* and the command validated
ExecLookup(t) ==
    /\ th[t].op = "exec" /\ th[t].pc = "lookup"
    /\ IF th[t].sid \notin DOMAIN sandboxes THEN Return(t, TRUE, "None")
       ELSE IF ~validate_command(th[t].cmd)
       THEN Return(t, FALSE, NotAllowed(th[t].cmd))
       ELSE /\ th' = [th EXCEPT ![t].pc = "prepare",
                                ![t].sandbox_path = sandboxes[th[t].sid].path]
            /\ UNCHANGED ret
    /\ UNCHANGED <<pyver, sys_stderr, fs, sandboxes, now, cwd, ncalls, inp,
                   out>>

\* exec, lines 302-303: the working directory is sanitized and made
ExecPrepare(t) ==
    /\ th[t].op = "exec" /\ th[t].pc = "prepare"
    /\ \E workdir_path \in {sanitize_path(fs, th[t].workdir,
                                          th[t].sandbox_path)} :
           IF workdir_path.raised
           THEN Return(t, TRUE, "None") /\ UNCHANGED fs
           ELSE \E made \in {MkdirParents(fs, workdir_path.path)} :
                    /\ fs' = made.fs
                    /\ IF ~made.ok THEN Return(t, TRUE, "None")
                       ELSE /\ th' = [th EXCEPT
                                         ![t].pc = "chdir",
                                         ![t].workdir_path =
                                             workdir_path.path]
                            /\ UNCHANGED ret
    /\ UNCHANGED <<pyver, sys_stderr, sandboxes, now, cwd, ncalls, inp, out>>

\* exec, lines 311-313: os.getcwd() and os.chdir(workdir_path); when chdir
\* raises, the finally clause goes back to the directory just read
ExecChdir(t) ==
    /\ th[t].op = "exec" /\ th[t].pc = "chdir"
    /\ IF ~PathIsDir(fs, cwd) \/ ~PathIsDir(fs, th[t].workdir_path)
       THEN Return(t, TRUE, "None") /\ UNCHANGED cwd
       ELSE /\ cwd' = Kernel(fs, th[t].workdir_path).path
            /\ th' = [th EXCEPT ![t].pc = "run", ![t].original_cwd = cwd]
            /\ UNCHANGED ret
    /\ UNCHANGED <<pyver, sys_stderr, fs, sandboxes, now, ncalls, inp, out>>

\* exec, lines 315-345: the child process runs and ends
ExecRun(t, how, duration_ms) ==
    /\ th[t].op = "exec" /\ th[t].pc = "run"
    /\ \E r \in {RunProcess(fs, th[t].cmd, th[t].workdir_path, how,
                            duration_ms)} :
           /\ fs' = r.fs
           /\ th' = [th EXCEPT ![t].pc = "finish", ![t].result = r.result]
    /\ UNCHANGED <<pyver, sys_stderr, sandboxes, now, cwd, ret, ncalls,
                   inp, out>>

\* exec, lines 347-354: return the result, through the finally clause
\* os.chdir(original_cwd), which raises when that directory is gone
ExecFinish(t) ==
    /\ th[t].op = "exec" /\ th[t].pc = "finish"
    /\ IF ~PathIsDir(fs, th[t].original_cwd)
       THEN Return(t, TRUE, "None") /\ UNCHANGED cwd
       ELSE Return(t, FALSE, th[t].result) /\ cwd' = th[t].original_cwd
    /\ UNCHANGED <<pyver, sys_stderr, fs, sandboxes, now, ncalls, inp, out>>

\* delete_sandbox(session_id), lines 445-446
DeleteBegin(t, session_id) ==
    /\ Begin(t)
    /\ IF session_id \notin DOMAIN sandboxes
       THEN /\ ret' = [ret EXCEPT ![t] = Ended("delete_sandbox", session_id,
                                                ncalls + 1, FALSE, FALSE)]
            /\ UNCHANGED th
       ELSE /\ th' = [th EXCEPT ![t] = [op |-> "delete_sandbox",
                                        pc |-> "rmtree", sid |-> session_id,
                                        n |-> ncalls + 1]]
            /\ UNCHANGED ret
    /\ ncalls' = ncalls + 1
    /\ UNCHANGED <<pyver, sys_stderr, fs, sandboxes, now, cwd, inp, out>>

\* delete_sandbox, lines 448-453: the record is looked up (KeyError when it
\* is gone) and its directory removed; shutil.rmtree raises on what is no
\* directory
DeleteRmtree(t) ==
    /\ th[t].op = "delete_sandbox" /\ th[t].pc = "rmtree"
    /\ IF th[t].sid \notin DOMAIN sandboxes
       THEN Return(t, TRUE, "None") /\ UNCHANGED fs
       ELSE LET sandbox_path == sandboxes[th[t].sid].path IN
            IF ~PathExists(fs, sandbox_path)
            THEN Goto(t, "del") /\ UNCHANGED fs
            ELSE IF ~IsDirAt(fs, sandbox_path)
            THEN Return(t, TRUE, "None") /\ UNCHANGED fs
            ELSE Goto(t, "del") /\ fs' = Rmtree(fs, sandbox_path)
    /\ UNCHANGED <<pyver, sys_stderr, sandboxes, now, cwd, ncalls, inp, out>>

\* delete_sandbox, lines 455-456: del self._sandboxes[session_id] (KeyError
\* when it is gone)
DeleteForget(t) ==
    /\ th[t].op = "delete_sandbox" /\ th[t].pc = "del"
    /\ IF th[t].sid \notin DOMAIN sandboxes
       THEN Return(t, TRUE, "None") /\ UNCHANGED sandboxes
       ELSE /\ Return(t, FALSE, TRUE)
            /\ sandboxes' = Without(sandboxes, {th[t].sid})
    /\ UNCHANGED <<pyver, sys_stderr, fs, now, cwd, ncalls, inp, out>>

\* What shutil.rmtree(p) may have removed when it raises on the way: names
\* below p, a directory among them together with all that is in it
RmtreeParts(f, p) ==
    {gone \in SUBSET {x \in DOMAIN f : IsWithin(x, p) /\ x # p} :
        \A x \in gone : \A y \in DOMAIN f : IsWithin(y, x) => y \in gone}

\* delete_sandbox, lines 448-453, when shutil.rmtree raises on the way (on
\* a directory the process may not change, as a command run by exec or
\* another process of the host can leave one): the names of gone are
\* removed, the error leaves delete_sandbox, the record stays
DeleteRmtreeFails(t, gone) ==
    /\ th[t].op = "delete_sandbox" /\ th[t].pc = "rmtree"
    /\ th[t].sid \in DOMAIN sandboxes
    /\ PathExists(fs, sandboxes[th[t].sid].path)
    /\ IsDirAt(fs, sandboxes[th[t].sid].path)
    /\ gone \in RmtreeParts(fs, sandboxes[th[t].sid].path)
    /\ fs' = Without(fs, gone)
    /\ Return(t, TRUE, "None")
    /\ UNCHANGED <<pyver, sys_stderr, sandboxes, now, cwd, ncalls, inp, out>>

\* touch(session_id)
Touch(t, session_id) ==
    /\ Begin(t)
    /\ \E r \in {touch(fs, sandboxes, session_id, now)} :
           /\ fs' = r.fs
           /\ sandboxes' = r.sandboxes
           /\ ret' = [ret EXCEPT ![t] = Ended("touch", session_id,
                                               ncalls + 1, r.raised, r.value)]
    /\ ncalls' = ncalls + 1
    /\ UNCHANGED <<pyver, sys_stderr, now, cwd, th, inp, out>>

\* wait_for_pod_ready(session_id) of the local backend
WaitForPodReady(t, session_id) ==
    /\ Begin(t)
    /\ \E r \in {wait_for_pod_ready(fs, sandboxes, session_id, now)} :
           /\ fs' = r.fs
           /\ sandboxes' = r.sandboxes
           /\ ret' = [ret EXCEPT ![t] = Ended("wait_for_pod_ready",
                                               session_id, ncalls + 1,
                                               r.raised, r.value)]
    /\ ncalls' = ncalls + 1
    /\ UNCHANGED <<pyver, sys_stderr, now, cwd, th, inp, out>>

\* The wall clock advances by one second
Tick ==
    /\ now < MaxClock
    /\ now' = now + 1
    /\ UNCHANGED <<pyver, sys_stderr, fs, sandboxes, cwd, th, ret, ncalls, inp,
                   out>>

----------------------------------------------------------------------------
(* One caller *)

\* Session identifiers: "a", "a/" (the same letters and a character that
\* _get_sandbox_path drops) and "/" (no character that it keeps)
SessionIds == {<<"a">>, <<"a", "/">>, <<"/">>}

\* The sessions that files are uploaded to and commands run in
BusySessions == {<<"a">>, <<"a", "/">>}

TTLs == {1}

\* The default working directory and upload destination
DefaultDir == <<"/", "workspace">>

\* The calls of exec, as <<cmd, workdir>>: no command, RM -rf / in a
\* directory "w" that is not there, echo ready, echo in the directory "f"
\* (the name upload_files gives to a file), ln -s /etc l, and nmap
ExecCalls ==
    {<< <<>>, DefaultDir >>,
     << << <<"R", "M">>, <<"-rf">>, <<"/">> >>, <<"w">> >>,
     << << <<"e", "c", "h", "o">>, <<"ready">> >>, DefaultDir >>,
     << << <<"e", "c", "h", "o">>, <<"ready">> >>, <<"f">> >>,
     << << <<"l", "n">>, <<"-s">>, <<"/", "etc">>, <<"l">> >>, DefaultDir >>,
     << << <<"n", "m", "a", "p">> >>, DefaultDir >>}

\* The files dicts of upload_files: a file "f", and a file named ".."
FileSets ==
    {<< <<<<"f">>, "x">> >>,
     << <<<<".", ".">>, "z">> >>}

\* The archives of upload_tar: no bytes; a plain file; a file two levels up;
\* a file with an absolute name
UploadArchives ==
    {[empty |-> TRUE, members |-> <<>>],
     [empty |-> FALSE, members |-> <<FileMember(<<"g">>, "1")>>],
     [empty |-> FALSE,
      members |-> <<FileMember(<<".", ".", "/", ".", ".", "/", "g">>, "2")>>],
     [empty |-> FALSE,
      members |-> <<FileMember(<<"/", "etc", "/", "passwd">>, "3")>>]}

\* The src of download_files: the workspace, the file "f" and a "w" that
\* is never there
DownloadSrcs == {DefaultDir, <<"f">>, <<"w">>}

Durations == {0}

Init ==
    /\ pyver \in {311, 314}
    /\ fs = HostFs
    /\ sandboxes = <<>>
    /\ now = 0
    /\ cwd = HomeDir
    /\ th = [t \in Threads |-> Idle]
    /\ ret = [t \in Threads |-> NoCall]
    /\ ncalls = 0
    /\ inp = NoCall
    /\ out = NoCall
    /\ sys_stderr = Printed([n |-> 0, last |-> ""], InitWarning)

Next ==
    \/ \E sid \in SessionIds, ttl \in TTLs : CreateSandbox(1, sid, ttl, 0)
    \/ \E sid \in BusySessions, files \in FileSets :
           UploadFiles(1, sid, files, DefaultDir)
    \/ \E sid \in BusySessions, tar_data \in UploadArchives :
           UploadTar(1, sid, tar_data, DefaultDir)
    \/ \E call \in ExecCalls : ExecBegin(1, <<"a">>, call[1], call[2])
    \/ ExecLookup(1)
    \/ ExecPrepare(1)
    \/ ExecChdir(1)
    \/ \E how \in ProcessEnds, ms \in Durations : ExecRun(1, how, ms)
    \/ ExecFinish(1)
    \/ \E sid \in SessionIds : DeleteBegin(1, sid)
    \/ DeleteRmtree(1)
    \/ \E gone \in SUBSET DOMAIN fs : DeleteRmtreeFails(1, gone)
    \/ DeleteForget(1)

Spec == Init /\ [][Next]_vars

----------------------------------------------------------------------------
(* Two callers of one session *)

\* The session both threads call
SharedSession == <<"a">>

\* What both threads run
SharedCmd == << <<"e", "c", "h", "o">>, <<"ready">> >>

NextConc ==
    \E t \in Threads :
        \/ CreateSandbox(t, SharedSession, 1, 0)
        \/ ExecBegin(t, SharedSession, SharedCmd, DefaultDir)
        \/ ExecLookup(t)
        \/ ExecPrepare(t)
        \/ ExecChdir(t)
        \/ \E how \in ProcessEnds : ExecRun(t, how, 0)
        \/ ExecFinish(t)
        \/ DeleteBegin(t, SharedSession)
        \/ DeleteRmtree(t)
        \/ \E gone \in SUBSET DOMAIN fs : DeleteRmtreeFails(t, gone)
        \/ DeleteForget(t)

SpecConc == Init /\ [][NextConc]_vars

----------------------------------------------------------------------------
(* The life of a session: created, touched, filled, deleted, while the     *)
(* clock advances                                                          *)

\* The sessions created, touched and deleted
LifeSessions == {<<"a">>, <<"a", "/">>}

\* The ttl_seconds given to create_sandbox
LifeTTLs == {1, 2}

\* How far the clock advances between the two readings of create_sandbox
ClockSteps == {0, 1}

NextLife ==
    \/ \E sid \in LifeSessions, ttl \in LifeTTLs, d \in ClockSteps :
           CreateSandbox(1, sid, ttl, d)
    \/ \E sid \in LifeSessions : Touch(1, sid)
    \/ \E sid \in LifeSessions : WaitForPodReady(1, sid)
    \/ Tick
    \/ UploadFiles(1, <<"a">>, << <<<<"f">>, "x">> >>, DefaultDir)
    \/ \E sid \in LifeSessions, src \in DownloadSrcs :
           DownloadFiles(1, sid, src)
    \/ \E sid \in LifeSessions : DeleteBegin(1, sid)
    \/ DeleteRmtree(1)
    \/ \E gone \in SUBSET DOMAIN fs : DeleteRmtreeFails(1, gone)
    \/ DeleteForget(1)

SpecLife == Init /\ [][NextLife]_vars

----------------------------------------------------------------------------
(* Claims about TarHandler.extract_tar, checked under SpecTar *)

\* path has a ".." segment, split on both slash styles
HasParentSegment(path) ==
    \E i \in 1..Len(SplitOn(path, BothSlashes)) :
        Cat(SplitOn(path, BothSlashes)[i]) = ".."

\* The paths at which file systems f and g differ
Changed(f, g) ==
    {x \in DOMAIN f \cup DOMAIN g :
        x \notin DOMAIN f \/ x \notin DOMAIN g \/ f[x] # g[x]}

\* A member that names a place outside the destination: its name, or its
\* link target, is absolute or has a ".." segment
NamesOutside(m) ==
    \/ IsAbs(m.name) \/ HasParentSegment(m.name)
    \/ m.type \in {"sym", "lnk"}
         /\ (IsAbs(m.linkname) \/ HasParentSegment(m.linkname))

ExtractDone ==
    inp.op = "extract_tar" /\ out # NoCall /\ ~inp.allow_absolute

\* C4: extract_tar without the allow-absolute override changes the file
\* system nowhere but under the destination root, every path under the
\* destination root is, once resolved, still under it, and when the call
\* raises it is not at a member that names a place outside.
C4_NothingOutsideDest ==
    ExtractDone =>
        /\ \A x \in Changed(HostFs, fs) : IsWithin(x, inp.dest)
        /\ \A x \in DOMAIN fs :
               IsWithin(x, inp.dest) =>
                   /\ Kernel(fs, x).ok
                   /\ IsWithin(Kernel(fs, x).path, inp.dest)
        /\ (out.raised /\ out.at > 0) =>
               ~NamesOutside(inp.tar_data.members[out.at])

----------------------------------------------------------------------------
(* Claims about LocalSandboxBackend, checked under Spec and SpecConc *)

\* Thread t's call ended in this step
JustEnded(t) == ret'[t] # ret[t]

\* C1: upload_tar changes the file system nowhere but under the sandbox
\* root of its session, whatever the names of the members are.
C1_UploadTarStaysInRoot ==
    [][\A t \in Threads :
          (JustEnded(t) /\ ret'[t].op = "upload_tar") =>
              \A x \in Changed(fs, fs') :
                  IsWithin(x, get_sandbox_path(ret'[t].sid))]_vars

\* C5: two records of the registry with different session identifiers have
\* different root paths.
C5_RootsNotShared ==
    \A a \in DOMAIN sandboxes, b \in DOMAIN sandboxes :
        a # b => sandboxes[a].path # sandboxes[b].path

\* The directory tree at root
Tree(f, root) == [x \in {y \in DOMAIN f : IsWithin(y, root)} |-> f[x]]

\* The call of thread t that takes this step
Acting(t) ==
    IF th[t] # Idle THEN th[t]
    ELSE IF th'[t] # Idle THEN th'[t]
    ELSE ret'[t]

\* C6: a step of delete_sandbox, upload_files or upload_tar on session A
\* leaves the record and the directory tree of every other live session
\* as they were.
C6_OtherSessionsUntouched ==
    [][\A t \in Threads :
          ((th'[t] # th[t] \/ ret'[t] # ret[t])
              /\ Acting(t).op \in {"delete_sandbox", "upload_files",
                                   "upload_tar"}) =>
              \A b \in DOMAIN sandboxes \ {Acting(t).sid} :
                  /\ b \in DOMAIN sandboxes'
                  /\ sandboxes'[b] = sandboxes[b]
                  /\ Tree(fs', sandboxes[b].path)
                         = Tree(fs, sandboxes[b].path)]_vars

\* C9: every call of exec returns, and returns an exit code, the two
\* output strings and a duration that is not negative.
C9_ExecReturnsResult ==
    \A t \in Threads :
        ret[t].op = "exec" =>
            /\ ~ret[t].raised
            /\ DOMAIN ret[t].value
                   = {"exitCode", "stdout", "stderr", "durationMs"}
            /\ ret[t].value.exitCode \in Int
            /\ ret[t].value.durationMs \in Nat

\* C10: an exec that has seen the record of its session finds it when it
\* looks it up, and from there to the end of its process the record and the
\* sandbox directory are there, and the working directory is when the
\* process starts.
C10_ExecNotRacedByDelete ==
    \A t \in Threads :
        th[t].op = "exec" =>
            /\ th[t].pc \in {"lookup", "prepare", "chdir", "run"} =>
                   th[t].sid \in DOMAIN sandboxes
            /\ th[t].pc \in {"prepare", "chdir", "run"} =>
                   PathIsDir(fs, th[t].sandbox_path)
            /\ th[t].pc = "run" => PathIsDir(fs, th[t].workdir_path)

----------------------------------------------------------------------------
(* Claims about PathSanitizer.sanitize, checked under SpecSanitize *)

SanitizeDone == inp.op = "sanitize" /\ out # NoCall

\* The workspace root under the sandbox root of the call
WorkspaceOf(root) == Append(Kernel(fs, root).path, "workspace")

\* C2: the path sanitize returns is, once its symbolic links and "."/".."
\* are resolved, the sandbox root or a descendant of it, whatever symbolic
\* links exist under the workspace.
C2_ResolvedInsideSandbox ==
    (SanitizeDone /\ ~out.raised /\ Kernel(fs, out.path).ok) =>
        IsWithin(Kernel(fs, out.path).path, Kernel(fs, inp.root).path)

----------------------------------------------------------------------------
(* Claims about command validation, checked under SpecValidate *)

ValidateDone == inp.op = "validate" /\ out # NoCall

\* C3: a command whose first element, lower-cased, is not in the allow-set
\* is rejected (default-deny), names in neither set included.
C3_DefaultDeny ==
    (ValidateDone /\ inp.cmd # <<>>
        /\ CommandName(inp.cmd) \notin ALLOWED_COMMANDS) => out.value = FALSE

\* C8: a command whose first element is, compared without regard to letter
\* case, in the deny-set is rejected whatever its arguments are.
C8_BlockedRejected ==
    (ValidateDone /\ inp.cmd # <<>>
        /\ CommandName(inp.cmd) \in BLOCKED_COMMANDS) => out.value = FALSE

\* C8's case: RM -rf / was validated and rejected.
C8_Witness ==
    /\ ValidateDone
    /\ inp.cmd = << <<"R", "M">>, <<"-", "r", "f">>, <<"/">> >>
    /\ out.value = FALSE

----------------------------------------------------------------------------
(* The life of a session *)

\* Call create_sandbox(sid, ttl) is this step, on a session the registry
\* has a record of
Recreated(sid, ttl) ==
    /\ sid \in DOMAIN sandboxes
    /\ \E d \in ClockSteps : CreateSandbox(1, sid, ttl, d)

DeleteEnds ==
    /\ th[1].op = "delete_sandbox" /\ th'[1] = Idle
    /\ th[1].sid \in DOMAIN sandboxes

\* C12: when delete_sandbox on a session with a record ends, returning or
\* raising, either the record is gone and nothing is left at or below its
\* root directory, or the record is there and the tree below the root is
\* what it was.
C12_DeleteAllOrNothing ==
    [][DeleteEnds =>
          \E root \in {sandboxes[th[1].sid].path} :
              \/ /\ th[1].sid \notin DOMAIN sandboxes'
                 /\ DOMAIN Tree(fs', root) = {}
              \/ /\ th[1].sid \in DOMAIN sandboxes'
                 /\ Tree(fs', root) = Tree(fs, root)]_vars

\* C13: delete_sandbox on an identifier the registry has no record of
\* returns False, does not raise and changes neither the registry nor the
\* file system; a delete_sandbox on a session with a record returns True;
\* and a delete_sandbox that directly follows a delete_sandbox of the same
\* identifier finds no record (and so returns False).
C13_DeleteReturns ==
    [][/\ \A sid \in LifeSessions :
              DeleteBegin(1, sid) /\ sid \notin DOMAIN sandboxes =>
                  /\ ret'[1] = Ended("delete_sandbox", sid, ncalls + 1,
                                     FALSE, FALSE)
                  /\ fs' = fs /\ sandboxes' = sandboxes
       /\ DeleteEnds => ~ret'[1].raised /\ ret'[1].value = TRUE
       /\ \A sid \in LifeSessions :
              /\ DeleteBegin(1, sid)
              /\ ret[1] # NoCall /\ ret[1].op = "delete_sandbox"
              /\ ret[1].sid = sid /\ ret[1].n = ncalls
              => sid \notin DOMAIN sandboxes]_vars

\* C14: touch on a session with a record leaves expires_at strictly greater
\* than it was before the call, whatever came before and whatever ttl the
\* record has.
C14_TouchExtendsExpiry ==
    [][\A sid \in LifeSessions :
          Touch(1, sid) /\ sid \in DOMAIN sandboxes =>
              sandboxes'[sid].expires_at > sandboxes[sid].expires_at]_vars

\* C15: when create_sandbox(sid, ttl) has returned, the record has
\* expires_at = created_at + ttl, however the clock advanced during the
\* call; when touch has returned on a session with a record, expires_at is
\* the time of the touch plus the ttl_seconds of the record.
C15_ExpiryIsCreationPlusTTL ==
    [][\A sid \in LifeSessions :
          /\ \A ttl \in LifeTTLs, d \in ClockSteps :
                 CreateSandbox(1, sid, ttl, d) /\ ~ret'[1].raised =>
                     sandboxes'[sid].expires_at =
                         sandboxes'[sid].created_at + ttl
          /\ Touch(1, sid) /\ sid \in DOMAIN sandboxes =>
                 sandboxes'[sid].expires_at =
                     now + sandboxes'[sid].ttl_seconds]_vars

----------------------------------------------------------------------------
(* exec *)

\* The exec of thread 1 validates its command with this step, the registry
\* having the record of its session
Validating ==
    /\ ExecLookup(1)
    /\ th[1].sid \in DOMAIN sandboxes

\* C16: when exec validates a command that is empty or whose first element
\* is blocked, the call ends there: it returns exitCode 1, an empty stdout,
\* the stderr "Command not allowed: " with the first element (or "empty")
\* and durationMs 0, and the file system and the current directory are as
\* they were, so that no directory is made for it; and no exec goes on to
\* make its working directory or to run a process with a command that
\* validation rejects.  (The sandbox of a session without a record is made
\* before, when exec begins.)
C16_RejectedCommandDoesNothing ==
    [][/\ Validating /\ ~validate_command(th[1].cmd) =>
              /\ th'[1] = Idle
              /\ ~ret'[1].raised
              /\ ret'[1].op = "exec" /\ ret'[1].n = th[1].n
              /\ ret'[1].value.exitCode = 1
              /\ ret'[1].value.stdout = ""
              /\ ret'[1].value.stderr =
                     "Command not allowed: "
                         \o (IF th[1].cmd = <<>> THEN "empty"
                             ELSE Cat(th[1].cmd[1]))
              /\ ret'[1].value.durationMs = 0
              /\ fs' = fs /\ cwd' = cwd /\ sandboxes' = sandboxes
       /\ th'[1].op = "exec" /\ th'[1].pc # "lookup" =>
              validate_command(th'[1].cmd)]_vars

\* C16: exec has returned "Command not allowed: RM" for the command it was
\* to run in the directory "w", and there is no "w" in the workspace
C16_Witness ==
    /\ ret[1] # NoCall /\ ret[1].op = "exec" /\ ~ret[1].raised
    /\ ret[1].value.stderr = "Command not allowed: RM"
    /\ th[1] = Idle
    /\ Exists(fs, get_sandbox_path(<<"a">>) \o <<"workspace">>)
    /\ ~Exists(fs, get_sandbox_path(<<"a">>) \o <<"workspace", "w">>)

\* The child process of the exec of thread 1 ends with this step, in the
\* way how
Ran(how) ==
    /\ th[1].op = "exec" /\ th[1].pc = "run"
    /\ PathIsDir(fs, th[1].workdir_path)
    /\ \E ms \in Durations : ExecRun(1, how, ms)

\* C17: the result of an exec whose command was validated is, when the
\* process is killed at the timeout, exitCode 124 with an empty stdout and
\* the timeout message; when the program is not found, exitCode 127 with a
\* stderr that is not empty; when the spawn fails otherwise, exitCode 1 with
\* the text of the failure; and in every other case, the process having run
\* to its end, the exit code, stdout and stderr of the process.
C17_ProcessOutcomes ==
    [][/\ Ran("timeout") =>
              /\ th'[1].result.exitCode = 124
              /\ th'[1].result.stdout = ""
              /\ th'[1].result.stderr = "Command timed out after "
       /\ Ran("notfound") =>
              /\ th'[1].result.exitCode = 127
              /\ th'[1].result.stderr # ""
       /\ Ran("error") =>
              /\ th'[1].result.exitCode = 1
              /\ th'[1].result.stderr = "Execution error: "
       /\ \A how \in ProcessEnds \ {"timeout", "notfound", "error"} :
              Ran(how) =>
                  \E child \in {ChildProcess(fs, th[1].cmd,
                                              th[1].workdir_path)} :
                      /\ th'[1].result.exitCode = child.returncode
                      /\ th'[1].result.stdout = child.stdout
                      /\ th'[1].result.stderr = child.stderr]_vars

----------------------------------------------------------------------------
(* Packing and unpacking *)

RoundTripDone == inp.op = "round_trip" /\ out # NoCall

\* A relative name without a ".." segment under either slash style that
\* names something: it has a component other than "."
ValidName(name) ==
    /\ ~IsAbs(name)
    /\ ~HasParentPart(name)
    /\ PathOf(name).parts # <<>>

\* No two names of files are the same path, nor is one a directory on the
\* way to another
Apart(files) ==
    \A i, j \in 1..Len(files) :
        i # j => ~IsWithin(PathOf(files[j][1]).parts,
                           PathOf(files[i][1]).parts)

\* Unpacking did not raise, returned the number of entries, and left under
\* TarDest one regular file for each entry of files and no other, at the
\* entry's name, with the entry's content
Unpacked(files) ==
    /\ ~out.raised
    /\ out.value = Len(files)
    /\ \A i \in 1..Len(files) :
           \E q \in {Join(TarDest, PathOf(files[i][1]))} :
               Exists(fs, q) /\ fs[q] = File(files[i][2])
    /\ Cardinality({x \in DOMAIN fs :
                        IsWithin(x, TarDest) /\ fs[x].kind = "file"})
           = Len(files)

WithoutParentNames(tar_data) ==
    [tar_data EXCEPT !.members =
        SelectSeq(tar_data.members, LAMBDA m : ~HasParentSegment(m.name))]

\* C19: whatever allow_absolute is, extract_tar skips the members whose
\* name has a ".." segment once both slash styles are split on: it ends,
\* with the count it returns and the file system it leaves, as it does on
\* the archive without these members, and it does not raise at one of them.
C19_ParentNamesSkipped ==
    inp.op = "extract_tar" /\ out # NoCall =>
        \E r \in {extract_tar(HostFs, WithoutParentNames(inp.tar_data),
                               inp.dest, inp.sandbox_path,
                               inp.allow_absolute, pyver)} :
            /\ out.raised /\ out.at > 0 =>
                   ~HasParentSegment(inp.tar_data.members[out.at].name)
            /\ out.raised = r.raised
            /\ out.value = r.value
            /\ fs = r.fs

----------------------------------------------------------------------------
(* File names *)

FilenameDone == inp.op = "sanitize_filename" /\ out # NoCall

\* C20: for every filename, "..", names that end in "/..", "" and names
\* with backslashes among them, sanitize_filename returns the final
\* component of the name, and what it returns has no path separator in it
\* and is not "..".
C20_FilenameIsPlainComponent ==
    FilenameDone =>
        /\ \E segs \in {SplitOn(inp.filename, {"/"})} :
               \/ out.value = <<>>
               \/ \E i \in 1..Len(segs) :
                      /\ out.value = segs[i]
                      /\ \A j \in (i + 1)..Len(segs) :
                             segs[j] \in {<<>>, <<".">>}
        /\ \A i \in 1..Len(out.value) : out.value[i] # "/"
        /\ out.value # <<".", ".">>

----------------------------------------------------------------------------
(* Uploads and downloads *)

\* C21: upload_files does not raise, whatever the names of files are
\* (absolute, with ".." segments, "..", ending in a separator), and every
\* file it writes is directly in the sanitized dest directory, here the
\* workspace of the session, inside the sandbox root.
C21_UploadFoldsUnsafeNames ==
    [][\A sid \in BusySessions, files \in FileSets :
          UploadFiles(1, sid, files, DefaultDir) =>
              /\ ~ret'[1].raised
              /\ \A x \in Changed(fs, fs') :
                     x \in DOMAIN fs' /\ fs'[x].kind = "file" =>
                         Parent(x) = Append(sandboxes'[sid].path,
                                            "workspace")]_vars

----------------------------------------------------------------------------
(* The warning of exec *)

\* C22: every exec prints its warning to sys.stderr of the host process
\* when it begins, whatever its command is and whatever was printed
\* before; so the warning of an exec is there when its process is spawned,
\* and when a command is rejected; and what exec returns as stdout and
\* stderr is not the warning, and returning prints nothing.
C22_ExecWarnsEveryTime ==
    [][/\ \A call \in ExecCalls :
              ExecBegin(1, <<"a">>, call[1], call[2]) =>
                  /\ sys_stderr'.n = sys_stderr.n + 1
                  /\ sys_stderr'.last = ExecWarning(call[1])
       /\ th[1].op = "exec" =>
              /\ sys_stderr.last = ExecWarning(th[1].cmd)
              /\ sys_stderr.n > 1
              /\ sys_stderr' = sys_stderr
       /\ th[1].op = "exec" /\ th'[1] = Idle /\ ~ret'[1].raised =>
              /\ ret'[1].value.stdout # sys_stderr.last
              /\ ret'[1].value.stderr # sys_stderr.last]_vars

\* C22: the third warning on sys.stderr is that of an exec whose command
\* was rejected
C22_Witness ==
    /\ ret[1] # NoCall /\ ret[1].op = "exec" /\ ~ret[1].raised
    /\ ret[1].value.stderr = "Command not allowed: RM"
    /\ th[1] = Idle
    /\ sys_stderr = [n |-> 3,
                     last |-> "Executing command in LOCAL environment: "
                                  \o "RM -rf /"]

----------------------------------------------------------------------------
(* download_files *)

\* C23: download_files on an identifier the registry has no record of
\* raises ValueError, returns no archive, and leaves the registry and the
\* file system as they were; download_files on a session with a record
\* whose sanitized src does not exist raises ValueError as well.
C23_DownloadFailsExplicitly ==
    [][\A sid \in LifeSessions, src \in DownloadSrcs :
          DownloadFiles(1, sid, src) =>
              /\ sid \notin DOMAIN sandboxes =>
                     /\ ret'[1].raised /\ ret'[1].value = "ValueError"
                     /\ fs' = fs /\ sandboxes' = sandboxes
              /\ sid \in DOMAIN sandboxes =>
                     \E p \in {sanitize_path(fs, src, sandboxes[sid].path)} :
                         ~p.raised /\ ~PathExists(fs, p.path) =>
                             /\ ret'[1].raised
                             /\ ret'[1].value = "ValueError"
                             /\ fs' = fs /\ sandboxes' = sandboxes]_vars

\* C23: the third call, a download_files on a session without a record,
\* has raised ValueError, and the registry has the record of another
\* session only
C23_Witness ==
    /\ ret[1] # NoCall /\ ret[1].op = "download_files" /\ ret[1].raised
    /\ ret[1].value = "ValueError"
    /\ ret[1].n = 3
    /\ ret[1].sid = <<"a", "/">>
    /\ DOMAIN sandboxes = {<<"a">>}

----------------------------------------------------------------------------
(* Where records come from *)

\* C24: touch, download_files, delete_sandbox and wait_for_pod_ready on an
\* identifier the registry has no record of leave the registry and the
\* file system as they were: they add no record and make no directory.
C24_OnlyCreateExecUploadAddRecords ==
    [][\A sid \in LifeSessions :
          /\ sid \notin DOMAIN sandboxes
          /\ \/ Touch(1, sid)
             \/ WaitForPodReady(1, sid)
             \/ DeleteBegin(1, sid)
             \/ \E src \in DownloadSrcs : DownloadFiles(1, sid, src)
          => sandboxes' = sandboxes /\ fs' = fs]_vars

-----------------------------------------------------------------------------
(* The allow-set *)

\* C25: the allow-set and the deny-set have no name in common, and a command
\* whose first element is, compared without regard to letter case, in the
\* allow-set validates as true whatever its arguments are.
C25_AllowedValidates ==
    /\ ALLOWED_COMMANDS \cap BLOCKED_COMMANDS = {}
    /\ (ValidateDone /\ inp.cmd # <<>>
           /\ CommandName(inp.cmd) \in ALLOWED_COMMANDS) => out.value = TRUE

\* C25's case: lS -rf / was validated and accepted.
C25_Witness ==
    /\ ValidateDone
    /\ inp.cmd = << <<"l", "S">>, <<"-", "r", "f">>, <<"/">> >>
    /\ out.value = TRUE

-----------------------------------------------------------------------------
(* NoxRunnerClient.wait_for_pod_ready: the poll loop of the remote client *)

\* The text the probe looks for
Ready == <<"r", "e", "a", "d", "y">>

\* s[:-1]
Front(s) == SubSeq(s, 1, Len(s) - 1)

\* s.lstrip()
RECURSIVE LStrip(_)
LStrip(s) == IF s # <<>> /\ Head(s) \in Whitespace THEN LStrip(Tail(s)) ELSE s

\* s.rstrip()
RECURSIVE RStrip(_)
RStrip(s) ==
    IF s # <<>> /\ s[Len(s)] \in Whitespace THEN RStrip(Front(s)) ELSE s

\* s.strip()
Strip(s) == RStrip(LStrip(s))

\* What the backend may print for echo ready, or for anything else
ProbeStdouts ==
    {Ready, <<" ">> \o Ready \o <<"\n">>, Ready \o <<"!">>, <<"\n">>, <<>>}

\* How self.exec(session_id, ['echo', 'ready'], timeout_seconds=5) may end:
\* it returns the reply's JSON (an object with stdout, an object without,
\* an object whose stdout is null, a value that is no object) or raises
ProbeReplies ==
    {[kind |-> "dict", stdout |-> o] : o \in ProbeStdouts}
        \cup {[kind |-> k] : k \in {"nostdout", "null", "notdict", "raises"}}

\* result.get('stdout', '').strip() == 'ready', False where the expression
\* raises and the bare except swallows it
SaysReady(reply) ==
    IF reply.kind = "dict" THEN Strip(reply.stdout) = Ready
    ELSE IF reply.kind = "nostdout" THEN Strip(<<>>) = Ready
    ELSE FALSE

\* The timeout and interval arguments, in clock ticks
WaitTimeouts == {-1, 0, 1, 2, 3}

WaitIntervals == {-1, 0, 1, 2}

\* How long a probe takes on the wall clock: a request and its reply
ProbeTicks == {1, 2}

\* The session the client waits for
WaitSession == <<"a">>

InitWait ==
    /\ pyver = 311
    /\ fs = HostFs
    /\ sandboxes = <<>>
    /\ NoBackend
    /\ inp \in {[op |-> "wait_for_pod_ready", session_id |-> WaitSession,
                 timeout |-> timeout, interval |-> interval] :
                    timeout \in WaitTimeouts, interval \in WaitIntervals}
    /\ out = NoCall

\* The end of the call on thread 1; the thread record keeps what the loop did
WaitEnds(call, raised, value) ==
    /\ th' = [th EXCEPT ![1] = [call EXCEPT !.pc = "done"]]
    /\ ret' = [ret EXCEPT ![1] =
                 Ended("wait_for_pod_ready", inp.session_id, 1, raised, value)]

\* start_time = time.time()
WaitBegin ==
    /\ inp.op = "wait_for_pod_ready" /\ th[1] = Idle /\ ret[1] = NoCall
    /\ th' = [th EXCEPT ![1] =
                [op |-> "wait_for_pod_ready", pc |-> "test",
                 start_time |-> now, probes |-> 0, slept |-> 0,
                 probed |-> NoCall, reply |-> [kind |-> "none"]]]
    /\ ncalls' = ncalls + 1
    /\ UNCHANGED <<pyver, sys_stderr, fs, sandboxes, now, cwd, ret, inp, out>>

\* while time.time() - start_time < timeout: ... return False
WaitTest ==
    /\ th[1].op = "wait_for_pod_ready" /\ th[1].pc = "test"
    /\ IF now - th[1].start_time < inp.timeout
       THEN /\ th' = [th EXCEPT ![1].pc = "probe"]
            /\ ret' = ret
       ELSE WaitEnds(th[1], FALSE, FALSE)
    /\ UNCHANGED <<pyver, sys_stderr, fs, sandboxes, now, cwd, ncalls, inp,
                   out>>

\* The try statement: one probe, which takes ticks of the clock and ends
\* as reply says
WaitProbe(reply, ticks) ==
    /\ th[1].op = "wait_for_pod_ready" /\ th[1].pc = "probe"
    /\ now' = now + ticks
    /\ \E call \in {[th[1] EXCEPT
                        !.probes = @ + 1,
                        !.probed = [op |-> "exec",
                                    session_id |-> inp.session_id,
                                    cmd |-> <<"echo", "ready">>,
                                    timeout_seconds |-> 5],
                        !.reply = reply]} :
          IF SaysReady(reply)
          THEN WaitEnds(call, FALSE, TRUE)
          ELSE /\ th' = [th EXCEPT ![1] = [call EXCEPT !.pc = "sleep"]]
               /\ ret' = ret
    /\ UNCHANGED <<pyver, sys_stderr, fs, sandboxes, cwd, ncalls, inp, out>>

\* time.sleep(interval), which raises ValueError for a negative length
WaitSleep ==
    /\ th[1].op = "wait_for_pod_ready" /\ th[1].pc = "sleep"
    /\ IF inp.interval < 0
       THEN /\ WaitEnds(th[1], TRUE, "ValueError")
            /\ now' = now
       ELSE /\ th' = [th EXCEPT ![1].pc = "test", ![1].slept = @ + 1]
            /\ ret' = ret
            /\ now' = now + inp.interval
    /\ UNCHANGED <<pyver, sys_stderr, fs, sandboxes, cwd, ncalls, inp, out>>

NextWait ==
    \/ WaitBegin
    \/ WaitTest
    \/ \E reply \in ProbeReplies, ticks \in ProbeTicks : WaitProbe(reply, ticks)
    \/ WaitSleep

SpecWait == InitWait /\ [][NextWait]_vars

\* The client's call has ended
WaitDone ==
    /\ inp.op = "wait_for_pod_ready"
    /\ th[1] # Idle /\ th[1].pc = "done"

\* C26: the client's wait_for_pod_ready never raises; it returns true only
\* on a probe whose trimmed stdout is ready, and then at once; it returns
\* false only when the elapsed time has reached the timeout; and with a
\* timeout of zero or less it returns false without a probe.
C26_WaitPollsWithoutRaising ==
    /\ WaitDone =>
         /\ ~ret[1].raised
         /\ ret[1].value = TRUE =>
               /\ th[1].probes > 0
               /\ SaysReady(th[1].reply)
         /\ ret[1].value = FALSE =>
               /\ now - th[1].start_time >= inp.timeout
               /\ ~SaysReady(th[1].reply)
         /\ inp.timeout <= 0 => ret[1].value = FALSE /\ th[1].probes = 0
    /\ (inp.op = "wait_for_pod_ready" /\ th[1] # Idle /\ th[1].pc = "sleep")
          => ~SaysReady(th[1].reply)

\* C27: wait_for_pod_ready of the local backend returns true only if it ran
\* a readiness probe, an exec of echo ready on that session, during the
\* call; every exec of the local backend prints its warning to sys.stderr.
C27_WaitReturnsTrueOnAProbe ==
    [][\A sid \in LifeSessions :
          /\ WaitForPodReady(1, sid)
          /\ ~ret'[1].raised
          /\ ret'[1].value = TRUE
          => /\ sys_stderr'.n > sys_stderr.n
             /\ sys_stderr'.last
                   = ExecWarning(<< <<"e", "c", "h", "o">>, Ready >>)]_vars

-----------------------------------------------------------------------------
(* The working directory of the spawned process *)

\* The session whose commands are run
WorkdirSession == <<"a">>

\* Its sandbox root, as a path string
WorkdirRoot == <<"/", "tmp", "/", "noxrunner_sandbox_a">>

Pwd == << <<"p", "w", "d">> >>

\* The calls of exec, as <<cmd, workdir>>: the workspace renamed and a
\* symbolic link to /etc put in its place, both from the sandbox root; a
\* symbolic link l to /etc made in the workspace; and pwd in the default
\* directory, through the link l, in /etc, in the parent of the workspace
\* and in the sandbox root
WorkdirCalls ==
    {<< << <<"m", "v">>, <<"workspace">>, <<"w2">> >>, WorkdirRoot >>,
     << << <<"l", "n">>, <<"-s">>, <<"/", "etc">>, <<"workspace">> >>,
        WorkdirRoot >>,
     << << <<"l", "n">>, <<"-s">>, <<"/", "etc">>, <<"l">> >>, DefaultDir >>,
     << Pwd, DefaultDir >>,
     << Pwd, <<"l">> >>,
     << Pwd, <<"/", "etc">> >>,
     << Pwd, <<"..">> >>,
     << Pwd, WorkdirRoot >>}

NextWorkdir ==
    \/ \E call \in WorkdirCalls :
           ExecBegin(1, WorkdirSession, call[1], call[2])
    \/ ExecLookup(1)
    \/ ExecPrepare(1)
    \/ ExecChdir(1)
    \/ \E how \in ProcessEnds, ms \in Durations : ExecRun(1, how, ms)
    \/ ExecFinish(1)

SpecWorkdir == Init /\ [][NextWorkdir]_vars

\* subprocess.run is about to spawn the process of thread 1's exec, which
\* ends as how says: the program and its working directory are there
Spawns(how) ==
    /\ th[1].op = "exec" /\ th[1].pc = "run"
    /\ how \in {"exit", "undecodable", "timeout"}
    /\ PathIsDir(fs, th[1].workdir_path)

\* The sandbox root of thread 1's session, resolved
ResolvedRoot == Resolve(fs, get_sandbox_path(th[1].sid)).path

\* C28: the working directory of the process exec spawns is, after
\* resolution, the sandbox root of the session or a descendant of it; for
\* the default workdir /workspace, and for an absolute workdir that
\* resolves outside the sandbox, it is the workspace of the session.
C28_ProcessRunsInsideSandbox ==
    [][\A how \in ProcessEnds, ms \in Durations :
          ExecRun(1, how, ms) /\ Spawns(how)
          => /\ IsWithin(Kernel(fs, th[1].workdir_path).path, ResolvedRoot)
             /\ (IsAbs(th[1].workdir)
                   /\ ~IsWithin(Resolve(fs, PathOf(th[1].workdir).parts).path,
                                ResolvedRoot))
                => Kernel(fs, th[1].workdir_path).path
                      = Append(ResolvedRoot, "workspace")]_vars

-----------------------------------------------------------------------------
(* What the operations leave of a record *)

\* The archive uploaded: one file g
FrameArchive == [empty |-> FALSE, members |-> <<FileMember(<<"g">>, "1")>>]

\* The files uploaded: one file f
FrameFiles == << <<<<"f">>, "x">> >>

\* The command run: echo ready
FrameCmd == << <<"e", "c", "h", "o">>, <<"ready">> >>

\* The session the operations are called on
FrameSessions == {<<"a">>}

NextFrame ==
    \/ \E sid \in FrameSessions, ttl \in LifeTTLs, d \in ClockSteps :
           CreateSandbox(1, sid, ttl, d)
    \/ \E sid \in FrameSessions : Touch(1, sid)
    \/ Tick
    \/ \E sid \in FrameSessions : UploadFiles(1, sid, FrameFiles, DefaultDir)
    \/ \E sid \in FrameSessions : UploadTar(1, sid, FrameArchive, DefaultDir)
    \/ \E sid \in FrameSessions, src \in DownloadSrcs :
           DownloadFiles(1, sid, src)
    \/ \E sid \in FrameSessions : ExecBegin(1, sid, FrameCmd, DefaultDir)
    \/ ExecLookup(1)
    \/ ExecPrepare(1)
    \/ ExecChdir(1)
    \/ \E how \in ProcessEnds, ms \in Durations : ExecRun(1, how, ms)
    \/ ExecFinish(1)

SpecFrame == Init /\ [][NextFrame]_vars

\* This step is a step of exec on session sid
ExecStep(sid) ==
    \/ ExecBegin(1, sid, FrameCmd, DefaultDir)
    \/ /\ th[1].op = "exec"
       /\ th[1].sid = sid
       /\ \/ ExecLookup(1)
          \/ ExecPrepare(1)
          \/ ExecChdir(1)
          \/ \E how \in ProcessEnds, ms \in Durations : ExecRun(1, how, ms)
          \/ ExecFinish(1)

\* This step is a step of exec, upload_files, upload_tar or download_files
\* on session sid
UsesSandbox(sid) ==
    \/ ExecStep(sid)
    \/ UploadFiles(1, sid, FrameFiles, DefaultDir)
    \/ UploadTar(1, sid, FrameArchive, DefaultDir)
    \/ \E src \in DownloadSrcs : DownloadFiles(1, sid, src)

\* C29: on a session that has a record, exec, upload_files, upload_tar and
\* download_files leave the record as it is; touch leaves its root path,
\* creation time and ttl as they are; and expires_at is changed by
\* create_sandbox and touch of that session only.
C29_RecordFrame ==
    [][\A sid \in FrameSessions :
          sid \in DOMAIN sandboxes
          => /\ UsesSandbox(sid)
                => /\ sid \in DOMAIN sandboxes'
                   /\ sandboxes'[sid] = sandboxes[sid]
             /\ Touch(1, sid)
                => /\ sandboxes'[sid].path = sandboxes[sid].path
                   /\ sandboxes'[sid].created_at = sandboxes[sid].created_at
                   /\ sandboxes'[sid].ttl_seconds
                         = sandboxes[sid].ttl_seconds
             /\ (/\ sid \in DOMAIN sandboxes'
                 /\ sandboxes'[sid].expires_at # sandboxes[sid].expires_at)
                => \/ Touch(1, sid)
                   \/ \E ttl \in LifeTTLs, d \in ClockSteps :
                          CreateSandbox(1, sid, ttl, d)]_vars

\* C29's case: session a was created with a ttl of 2, the clock advanced,
\* a command was run in it to its end, and the record is as create_sandbox
\* left it.
C29_Witness ==
    /\ ret[1].op = "exec" /\ ret[1].sid = <<"a">> /\ ~ret[1].raised
    /\ ret[1].value.stdout = "ready\n"
    /\ <<"a">> \in DOMAIN sandboxes
    /\ sandboxes[<<"a">>].ttl_seconds = 2
    /\ sandboxes[<<"a">>].created_at = 0
    /\ sandboxes[<<"a">>].expires_at = 2
    /\ now = 1

-----------------------------------------------------------------------------
(* Two callers of two sessions, and the working directory of the host *)

\* The session each thread runs its commands in
CwdSession == <<<<"a">>, <<"b">>>>

NextCwd ==
    \E t \in Threads :
        \/ ExecBegin(t, CwdSession[t], FrameCmd, DefaultDir)
        \/ ExecLookup(t)
        \/ ExecPrepare(t)
        \/ ExecChdir(t)
        \/ \E how \in ProcessEnds, ms \in Durations : ExecRun(t, how, ms)
        \/ ExecFinish(t)

SpecCwd == Init /\ [][NextCwd]_vars

\* C30: when every exec has returned, the working directory of the host
\* process is what it was before the first call; and no exec runs its
\* command while the working directory of the host process is outside the
\* sandbox of its own session.
C30_CwdRestored ==
    [][/\ (\A t \in Threads : th'[t] = Idle) => cwd' = HomeDir
       /\ \A t \in Threads, how \in ProcessEnds, ms \in Durations :
             ExecRun(t, how, ms)
             => IsWithin(cwd, get_sandbox_path(th[t].sid))]_vars

-----------------------------------------------------------------------------
(* Skip and continue *)

RECURSIVE WrittenFrom(_, _, _, _, _, _, _)
\* Of the members of the archive from member i on, how many are no
\* directory, pass the checks of extract_tar and are there, at destination
\* and name, once the loop has dealt with them; a member at which the loop
\* raises is passed over
WrittenFrom(f, archive, i, dest, sandbox_path, allow_absolute, py) ==
    IF i > Len(archive) THEN 0
    ELSE \* the file system the loop leaves after member i
         With(ExtractMember(f, archive, i, dest, sandbox_path,
                            allow_absolute, py),
              LAMBDA r :
             (IF r.what = "write"
                   /\ LExists(r.fs, Join(dest, PathOf(archive[i].name)))
              THEN 1 ELSE 0)
                 + WrittenFrom(r.fs, archive, i + 1, dest, sandbox_path,
                               allow_absolute, py))

\* C31: extract_tar never stops at a member; the count it returns is the
\* number of members that are no directory, passed every check and were
\* written; and for an empty blob it returns 0 and leaves the file system,
\* the destination directory included, as it was.
C31_SkipAndContinue ==
    inp.op = "extract_tar" /\ out # NoCall =>
        /\ ~out.raised
        /\ inp.tar_data.empty => out.value = 0 /\ fs = HostFs
        /\ ~inp.tar_data.empty =>
              out.value = WrittenFrom(MkdirParents(HostFs, inp.dest).fs,
                                      inp.tar_data.members, 1, inp.dest,
                                      inp.sandbox_path, inp.allow_absolute,
                                      pyver)

-----------------------------------------------------------------------------
(* Link targets *)

\* A link member whose target is absolute or has a ".." segment
NamesOutsideByTarget(m) ==
    /\ m.type \in {"sym", "lnk"}
    /\ IsAbs(m.linkname) \/ HasParentSegment(m.linkname)

\* The archive without these members
WithoutOutsideTargets(tar_data) ==
    [tar_data EXCEPT !.members =
        SelectSeq(tar_data.members, LAMBDA m : ~NamesOutsideByTarget(m))]

\* C32: without the allow-absolute override extract_tar skips the link
\* members whose target is absolute or has a ".." segment once both slash
\* styles are split on: it ends, with the count it returns and the file
\* system it leaves, as it does on the archive without these members, and
\* it does not raise at one of them.
C32_OutsideLinkTargetsSkipped ==
    ExtractDone =>
        \E r \in {extract_tar(HostFs, WithoutOutsideTargets(inp.tar_data),
                               inp.dest, inp.sandbox_path,
                               inp.allow_absolute, pyver)} :
            /\ out.raised /\ out.at > 0 =>
                   ~NamesOutsideByTarget(inp.tar_data.members[out.at])
            /\ out.raised = r.raised
            /\ out.value = r.value
            /\ fs = r.fs

-----------------------------------------------------------------------------
(* The outer boundary of extract_tar *)

\* A boundary the destination /tmp/dl lies outside of
TarBox == <<"tmp", "box">>

\* The members of the archives: files with a plain name, a nested name, a
\* parent-relative name, an absolute name outside the boundaries and one
\* inside /tmp/box; a symbolic link to /etc
BoundaryMembers ==
    {FileMember(<<"a">>, "1"), FileMember(<<"a", "/", "x">>, "2"),
     FileMember(<<"..", "/", "..", "/", "etc", "/", "x">>, "3"),
     FileMember(<<"/", "etc", "/", "x">>, "4"),
     FileMember(<<"/", "tmp", "/", "box", "/", "x">>, "5"),
     SymMember(<<"a">>, <<"/", "etc">>)}

InitBoundary ==
    /\ pyver \in {311, 312}
    /\ fs = HostFs
    /\ sandboxes = <<>>
    /\ NoBackend
    /\ inp \in {[op |-> "extract_tar", tar_data |-> a, dest |-> TarDest,
                 sandbox_path |-> sp, allow_absolute |-> aa] :
                    a \in {[empty |-> FALSE, members |-> ms] :
                              ms \in SeqsUpTo(BoundaryMembers, MaxMembers)},
                    sp \in {TarDest, TarBox}, aa \in BOOLEAN}
    /\ out = NoCall

NextBoundary == CallExtractTar

SpecBoundary == InitBoundary /\ [][NextBoundary]_vars

\* The names the call has made, the destination directory aside
Written == (DOMAIN fs \ DOMAIN HostFs) \ {inp.dest}

\* C33: with an outer boundary given, every name extract_tar makes for a
\* member is the boundary or below it, whatever allow_absolute is; and
\* with a destination outside the boundary it makes none.
C33_NothingOutsideBoundary ==
    inp.op = "extract_tar" /\ out # NoCall =>
        /\ \A x \in Written : IsWithin(x, inp.sandbox_path)
        /\ ~IsWithin(inp.dest, inp.sandbox_path) => Written = {}

-----------------------------------------------------------------------------
(* The segments of a relative path *)

\* A segment made only of dots, two or more
AllDots(seg) == Len(seg) >= 2 /\ \A i \in 1..Len(seg) : seg[i] = "."

\* A segment that is neither empty nor "."
IsKept(seg) == seg # <<>> /\ seg # <<".">>

\* C34: for a relative input, split on both slash styles, sanitize gives
\* the workspace root when a segment is made only of dots, two or more;
\* else the workspace root joined with the segments that are neither empty
\* nor ".", each as it is written and in their order.
C34_RelativeSegments ==
    (SanitizeDone /\ ~IsAbs(inp.path)) =>
        out = Returned(
            IF \E i \in 1..Len(SplitOn(inp.path, BothSlashes)) :
                   AllDots(SplitOn(inp.path, BothSlashes)[i])
            THEN WorkspaceOf(inp.root)
            ELSE WorkspaceOf(inp.root)
                     \o Names(SelectSeq(SplitOn(inp.path, BothSlashes),
                                        IsKept)))

-----------------------------------------------------------------------------
(* Absolute paths *)

\* C35: for an absolute input sanitize gives the resolved path when that is
\* the sandbox root or below it, and the workspace root otherwise, also
\* when the path cannot be resolved.
C35_AbsoluteInput ==
    (SanitizeDone /\ IsAbs(inp.path)) =>
        out = Returned(
            IF /\ Resolve(fs, PathOf(inp.path).parts).ok
               /\ IsWithin(Resolve(fs, PathOf(inp.path).parts).path,
                           Resolve(fs, inp.root).path)
            THEN Resolve(fs, PathOf(inp.path).parts).path
            ELSE WorkspaceOf(inp.root))

-----------------------------------------------------------------------------
(* The backend's own sanitizer against PathSanitizer *)

\* C36: LocalSandboxBackend._sanitize_path gives the same outcome as
\* PathSanitizer.sanitize with workspace name "workspace" for every input
\* path and sandbox root.
C36_SameAsPathSanitizer ==
    SanitizeDone => out = sanitize_path(fs, inp.path, inp.root)

-----------------------------------------------------------------------------
(* The root directory of a record *)

\* The characters session identifiers are drawn from, and their length
IdChars == {"a", "1", "-", "_", "/", "."}
MaxIdLen == 3

InitRoot ==
    /\ pyver = 311
    /\ fs = HostFs
    /\ sandboxes = <<>>
    /\ NoBackend
    /\ inp \in {[op |-> "create_sandbox", session_id |-> id] :
                    id \in StrsUpTo(IdChars, MaxIdLen)}
    /\ out = NoCall

\* backend.create_sandbox(session_id) on a backend with /tmp as base_dir
CallCreateSandbox ==
    /\ inp.op = "create_sandbox" /\ out = NoCall
    /\ \E r \in {create_sandbox(fs, sandboxes, inp.session_id, DefaultTTL,
                                now, now)} :
           /\ out' = [raised |-> r.raised]
           /\ fs' = r.fs
           /\ sandboxes' = r.sandboxes
    /\ UNCHANGED <<pyver, sys_stderr, now, cwd, th, ret, ncalls, inp>>

NextRoot == CallCreateSandbox

SpecRoot == InitRoot /\ [][NextRoot]_vars

RootDone == inp.op = "create_sandbox" /\ out # NoCall

\* The record of the session is there, its root a direct child of base_dir
\* with the given name
RootIs(name) ==
    /\ ~out.raised
    /\ inp.session_id \in DOMAIN sandboxes
    /\ Parent(sandboxes[inp.session_id].path) = base_dir
    /\ sandboxes[inp.session_id].path[Len(base_dir) + 1] = name

\* C37 as stated: the root of the record is a direct child of base_dir named
\* noxrunner_sandbox_ plus the letters, digits, "-" and "_" of the identifier,
\* whatever the identifier.
C37_RootNamedFromIdentifier ==
    RootDone =>
        RootIs("noxrunner_sandbox_"
                   \o Cat(SelectSeq(inp.session_id, SafeIdChar)))

\* C37: the root of the record is a direct child of base_dir named
\* noxrunner_sandbox_ plus the letters, digits, "-" and "_" of the identifier
\* in their order, or plus "default" when the identifier has none of them.
C37_RootNamedOrDefault ==
    RootDone =>
        RootIs("noxrunner_sandbox_"
                   \o (IF \E i \in 1..Len(inp.session_id) :
                              SafeIdChar(inp.session_id[i])
                       THEN Cat(SelectSeq(inp.session_id, SafeIdChar))
                       ELSE "default"))

C37_Witness ==
    /\ RootDone
    /\ inp.session_id = <<".", ".", "/">>
    /\ sandboxes[inp.session_id].path = <<"tmp", "noxrunner_sandbox_default">>

====
